---- MODULE Spec2Model ----
(***************************************************************************)
(* visage: images dropped on a canvas, each an independently transformable *)
(* "visage".  The model follows src/main.go (lines 1-633): the Game struct, *)
(* the frame loop Update (handleErrors, handleDroppedFiles, handleKeybinds, *)
(* handleMouseActions, handleCursor), the six toolbar button actions and    *)
(* the ingest goroutine started by handleDroppedFiles.                      *)
(*                                                                         *)
(* Go slices are 0-based; the model keeps Go's indices and reads element i  *)
(* of a list as visages[i + 1].  A run-time panic (index or slice bounds    *)
(* out of range) stops the program: it sets g.panicked and nothing runs     *)
(* after it.                                                                *)
(*                                                                         *)
(* The goroutine appends under g.m; Update takes no lock while its          *)
(* handlers read and write g.visages.  The append is therefore two steps,   *)
(* the load of the slice header and the store of the grown slice, and the   *)
(* handlers of a frame can run between them (IngestLock, IngestAppend); a   *)
(* handler's own load and store can enclose a whole append (LosesAppend).   *)
(*                                                                         *)
(* g.visages is a slice on a backing array: an action that reslices or     *)
(* appends in place writes the array the goroutine's loaded header still   *)
(* points at, and the model keeps the slots behind len for that reason.    *)
(*                                                                         *)
(* Fifteen specifications feed the same program different inputs: Spec     *)
(* (the collection: drops, copies and deletes), SpecSelect (hit            *)
(* tests, drags and deletes on overlapping visages), SpecResize,           *)
(* SpecRotate, SpecTurn (quarter turns), SpecPan, SpecErrors (failing      *)
(* walks), SpecDecode (undecodable files), SpecKeys (hotkeys), SpecOrder   *)
(* (move up and down), SpecBrush (erasing a resized visage), SpecQuarter   *)
(* (one quarter turn), SpecLive (a drop under fair scheduling), SpecTool   *)
(* (the erase flag) and SpecErase.                                         *)
(***************************************************************************)
EXTENDS Integers, Sequences, FiniteSets, TLC

VARIABLES
  g,            \* the Game struct's fields, and the heap of *ebiten.Image objects
  err,          \* Game.err, the one-slot error box
  m,            \* Game.m: 0 when free, else the ingest task holding it
  pressedKeys,  \* the package-level latch pressedKeys
  tasks,        \* the ingest goroutines started by handleDroppedFiles
  pc            \* the frame loop's position inside Update

vars == <<g, err, m, pressedKeys, tasks, pc>>

(***************************************************************************)
(* Program constants (src/main.go, const block).                           *)
(***************************************************************************)
handleArea == 8
handleNone == 0
handleTopLeft == 1
handleTopRight == 2
handleBottomLeft == 3
handleBottomRight == 4
buttonSize == 30
sliderMin == 5
sliderMax == 145
sliderWidth == 150
sliderHeight == 8
sliderYOffset == 18
sliderMouseOffset == 14
sliderInitial == 30
ingestX == 40
ingestY == 40
copyOffset == 30
buttonXOffset == -36

(***************************************************************************)
(* Bounds of the model.                                                    *)
(***************************************************************************)
MaxVisages == 3
MaxBatches == 1
MaxKeysDown == 1
CoordLimit == 130
BoxMargin == 0

(***************************************************************************)
(* Small helpers.                                                          *)
(***************************************************************************)
Abs(n) == IF n < 0 THEN -n ELSE n

MinOf(S) == CHOOSE n \in S : \A k \in S : n <= k

\* Go's integer division truncates toward zero.
GoDiv(a, b) == IF a >= 0 THEN a \div b ELSE -((-a) \div b)

(***************************************************************************)
(* Images.  An *ebiten.Image is a heap object: g.images maps its address   *)
(* (id) to its bounds Dx, Dy and its pixels; a Visage holds the address.   *)
(* A pixel is 0 when it is color.RGBA{0,0,0,0}, else a positive label.     *)
(***************************************************************************)
Pixels(Dx, Dy) == (0..(Dx - 1)) \X (0..(Dy - 1))

\* The picture a PNG of the given size decodes to: every pixel distinct.
DecodedImage(Dx, Dy) ==
  [Dx |-> Dx, Dy |-> Dy, pix |-> [p \in Pixels(Dx, Dy) |-> 1 + p[1] + Dx * p[2]]]

ImageIds(vs) == {vs[i].image : i \in 1..Len(vs)}

(***************************************************************************)
(* g.visages is a Go slice: a header (pointer, len, cap) on a backing      *)
(* array.  G.visages are the len elements the header shows and G.tail the  *)
(* cap - len slots of the array behind them: the zero Visage where         *)
(* nothing was stored, or what an append(s[:i], s[i+1:]...) left there.    *)
(* G.moved notes, within one handler, that an action has put g.visages on  *)
(* a new array, and G.old is the array it left, as it left it.             *)
(***************************************************************************)
ZeroVisage == [x |-> 0, y |-> 0, w |-> 0, h |-> 0, image |-> 0]

Zeros(k) == [i \in 1..k |-> ZeroVisage]

Array(G) == G.visages \o G.tail

\* The capacity growslice gives a full slice of n Visages (40 bytes each) that
\* grows by one: twice n, which the allocator's size classes leave as it is
\* for n <= 8.
GrownCap(n) == IF n = 0 THEN 1 ELSE 2 * n

\* append(s, v) in the action of a handler: in place when cap(s) > len(s).
Appended(G, v) ==
  IF G.tail # <<>>
  THEN [G EXCEPT !.visages = Append(@, v), !.tail = Tail(@)]
  ELSE [G EXCEPT !.visages = Append(@, v),
                 !.tail = Zeros(GrownCap(Len(G.visages)) - Len(G.visages) - 1),
                 !.old = IF G.moved THEN @ ELSE Array(G),
                 !.moved = TRUE]

\* The addresses some goroutine still holds: an ingest task's decoded image,
\* the visages it has copied and those of the array it has the header of.
TaskImageIds(ts) ==
  UNION {(IF ts[t].pc = "locked" THEN {ts[t].image} ELSE {})
           \cup ImageIds(ts[t].snap) \cup ImageIds(ts[t].late)
         : t \in DOMAIN ts}

\* ebiten.NewImage / NewImageFromImage: a fresh address.
FreshId(G, ts) ==
  LET used == DOMAIN G.images \cup ImageIds(G.visages) \cup TaskImageIds(ts)
  IN MinOf((1..(Cardinality(used) + 1)) \ used)

\* Garbage collection: an image no visage and no goroutine refers to is gone,
\* and so is the array a handler has left.  What lies behind len(g.visages) is
\* read by a goroutine that loaded the header when len was larger and by
\* nothing else: with no such goroutine only the number of the slots counts.
Collect(G, ts) ==
  LET tail == IF \E t \in DOMAIN ts : ts[t].pc = "locked"
              THEN G.tail ELSE Zeros(Len(G.tail))
      live == ImageIds(G.visages) \cup ImageIds(tail) \cup TaskImageIds(ts)
  IN [G EXCEPT !.images = [i \in (DOMAIN G.images) \cap live |-> G.images[i]],
               !.tail = tail, !.old = <<>>, !.moved = FALSE]

(***************************************************************************)
(* getPixelCoordinates (src/main.go:231-233) computes                      *)
(*   int(float64(a) * (float64(n) / float64(d)))                           *)
(* in IEEE-754 binary64: the quotient is rounded, the product is rounded,  *)
(* and the conversion truncates toward zero.  For |a|, d <= 320 and n <= 3  *)
(* or n = 20 the result is the truncated exact quotient a*n/d except        *)
(* for the triples <<|a|, n, d>> of RoundsBelow, where a*n/d is an integer *)
(* and the rounded product falls just below it (49 * (1/49) < 1).          *)
(***************************************************************************)
RoundsBelow ==
  { <<47, 3, 47>>, <<49, 1, 49>>, <<49, 2, 49>>, <<49, 2, 98>>,
    <<49, 3, 147>>, <<55, 3, 11>>, <<94, 3, 47>>, <<94, 3, 94>>,
    <<98, 1, 49>>, <<98, 1, 98>>, <<98, 2, 49>>, <<98, 2, 98>>,
    <<98, 2, 196>>, <<98, 3, 147>>, <<98, 3, 294>>, <<99, 3, 11>>,
    <<103, 1, 103>>, <<103, 2, 103>>, <<103, 2, 206>>, <<103, 3, 309>>,
    <<107, 1, 107>>, <<107, 2, 107>>, <<107, 2, 214>>, <<110, 3, 11>>,
    <<110, 3, 22>>, <<147, 1, 49>>, <<147, 2, 49>>, <<147, 2, 98>>,
    <<147, 3, 147>>, <<161, 1, 161>>, <<161, 2, 161>>, <<173, 3, 173>>,
    <<187, 1, 187>>, <<187, 2, 187>>, <<187, 3, 11>>, <<188, 3, 47>>,
    <<188, 3, 94>>, <<188, 3, 188>>, <<196, 1, 49>>, <<196, 1, 98>>,
    <<196, 1, 196>>, <<196, 2, 49>>, <<196, 2, 98>>, <<196, 2, 196>>,
    <<196, 3, 147>>, <<196, 3, 294>>, <<197, 1, 197>>, <<197, 2, 197>>,
    <<198, 3, 11>>, <<198, 3, 22>>, <<205, 3, 41>>, <<206, 1, 103>>,
    <<206, 1, 206>>, <<206, 2, 103>>, <<206, 2, 206>>, <<206, 3, 309>>,
    <<209, 3, 11>>, <<214, 1, 107>>, <<214, 1, 214>>, <<214, 2, 107>>,
    <<214, 2, 214>>, <<220, 3, 11>>, <<220, 3, 22>>, <<220, 3, 44>>,
    <<231, 3, 11>>, <<235, 3, 47>>, <<237, 1, 237>>, <<237, 2, 237>>,
    <<239, 1, 239>>, <<239, 2, 239>>, <<249, 1, 249>>, <<249, 2, 249>>,
    <<253, 1, 253>>, <<253, 2, 253>>, <<294, 1, 49>>, <<294, 1, 98>>,
    <<294, 2, 49>>, <<294, 2, 98>>, <<294, 2, 196>>, <<294, 3, 147>>,
    <<294, 3, 294>>, <<307, 3, 307>>, <<309, 1, 103>>, <<309, 2, 103>>,
    <<309, 2, 206>>, <<309, 3, 309>>,
    <<49, 20, 245>>, <<77, 20, 77>>, <<77, 20, 154>>, <<77, 20, 308>>,
    <<98, 20, 245>>, <<117, 20, 39>>, <<117, 20, 78>>, <<117, 20, 156>>,
    <<147, 20, 245>>, <<154, 20, 77>>, <<154, 20, 154>>, <<154, 20, 308>>,
    <<183, 20, 61>>, <<183, 20, 122>>, <<183, 20, 244>>, <<195, 20, 39>>,
    <<195, 20, 78>>, <<195, 20, 156>>, <<196, 20, 245>>, <<201, 20, 67>>,
    <<201, 20, 134>>, <<201, 20, 268>>, <<231, 20, 77>>, <<231, 20, 154>>,
    <<231, 20, 308>>, <<234, 20, 39>>, <<234, 20, 78>>, <<234, 20, 156>>,
    <<234, 20, 312>>, <<294, 20, 245>>, <<303, 20, 303>>, <<305, 20, 61>>,
    <<305, 20, 122>>, <<305, 20, 244>>, <<308, 20, 77>>, <<308, 20, 154>>,
    <<308, 20, 308>>, <<319, 20, 319>> }

FloatScale(a, n, d) ==
  LET mag == (Abs(a) * n) \div d
      res == IF <<Abs(a), n, d>> \in RoundsBelow THEN mag - 1 ELSE mag
  IN IF a < 0 THEN -res ELSE res

\* getPixelCoordinates(v, x, y): screen point to surface pixel.
getPixelCoordinates(G, v, x, y) ==
  <<FloatScale(x - v.x, G.images[v.image].Dx, v.w),
    FloatScale(y - v.y, G.images[v.image].Dy, v.h)>>

(***************************************************************************)
(* erasePixels (src/main.go:235-250): for dx, dy in -r..r with             *)
(* dx*dx + dy*dy <= r*r, the pixel (px+dx, py+dy) is set transparent when  *)
(* it lies inside the image.  ErasedBy is the set of pixels some iteration *)
(* of the two loops writes.                                                *)
(***************************************************************************)
\* Loops that would leave out the rim of the disc.
LoopHitsInside(dx, dy, r) ==
  /\ dx >= -r /\ dx <= r
  /\ dy >= -r /\ dy <= r
  /\ dx * dx + dy * dy < r * r

LoopHits(dx, dy, r) ==
  /\ dx >= -r /\ dx <= r
  /\ dy >= -r /\ dy <= r
  /\ dx * dx + dy * dy <= r * r

\* The positions the comparison below has to look at: the image and one ring
\* of positions around it (every other candidate is out of bounds as well).
Window(img) == ((-1)..img.Dx) \X ((-1)..img.Dy)

ErasedBy(img, px, py, r) ==
  {p \in Window(img) :
     /\ LoopHits(p[1] - px, p[2] - py, r)
     /\ p[1] >= 0 /\ p[2] >= 0 /\ p[1] < img.Dx /\ p[2] < img.Dy}

ImageAfterErase(img, px, py, r) ==
  LET hit == ErasedBy(img, px, py, r)
  IN [img EXCEPT !.pix = [p \in (DOMAIN img.pix) \cup hit |->
                            IF p \in hit THEN 0 ELSE img.pix[p]]]

erasePixels(G, v, px, py) ==
  [G EXCEPT !.images[v.image] = ImageAfterErase(@, px, py, G.sliderValue)]

\* A slider whose value would be clamped at sliderMin only.
updateSliderValueUnbounded(G, value) ==
  [G EXCEPT !.sliderValue = IF value < sliderMin THEN sliderMin ELSE value]

\* updateSliderValue (src/main.go:252-259).
updateSliderValue(G, value) ==
  [G EXCEPT !.sliderValue = IF value < sliderMin THEN sliderMin
                            ELSE IF value > sliderMax THEN sliderMax
                            ELSE value]

(***************************************************************************)
(* The six toolbar buttons (src/main.go:520-626), in list order; a hotkey  *)
(* or a click calls action(g.selectedIndex).                               *)
(***************************************************************************)
Buttons == 0..5
btnMove == 0
btnFlip == 1
btnRotate == 2
btnDelete == 3
btnCopy == 4
btnErase == 5

buttonYOffset(b) == 10 + 36 * b

Panic(G) == [G EXCEPT !.panicked = TRUE]

InRange(G, i) == i >= 0 /\ i < Len(G.visages)

At(G, i) == G.visages[i + 1]

\* s[:i] and s[i+1:] of a Go slice, for 0 <= i < len(s).
Before(s, i) == SubSeq(s, 1, i)
After(s, i) == SubSeq(s, i + 2, Len(s))

\* A move that would send every selection to the front.
moveActionToFront(G, selectedIndex) ==
  IF ~InRange(G, selectedIndex) THEN Panic(G)
  ELSE LET visage == At(G, selectedIndex)
           spliced == Before(G.visages, G.selectedIndex) \o After(G.visages, G.selectedIndex)
       IN [G EXCEPT !.visages = Append(spliced, visage),
                    !.selectedIndex = Len(spliced)]

\* "move" (src/main.go:527-538): the front-most selection goes to the back,
\* any other selection to the front.
moveAction(G, selectedIndex) ==
  IF ~InRange(G, selectedIndex) THEN Panic(G)
  ELSE LET visage == At(G, selectedIndex) IN
    IF G.selectedIndex = Len(G.visages) - 1
    THEN \* append([]Visage{visage}, ...): a new array, of len(g.visages) slots
         [G EXCEPT !.visages = <<visage>> \o Before(G.visages, G.selectedIndex),
                   !.selectedIndex = 0,
                   !.tail = <<>>,
                   !.old = IF G.moved THEN @ ELSE Array(G),
                   !.moved = TRUE]
    ELSE IF ~InRange(G, G.selectedIndex) THEN Panic(G)
    ELSE \* both appends in place: the slot the first one frees takes visage
         LET spliced == Before(G.visages, G.selectedIndex) \o After(G.visages, G.selectedIndex)
         IN [G EXCEPT !.visages = Append(spliced, visage),
                      !.selectedIndex = Len(spliced)]

\* The image a horizontal mirror draws: Scale(-1, 1), Translate(Dx, 0).
FlippedImage(src) ==
  [Dx |-> src.Dx, Dy |-> src.Dy,
   pix |-> [p \in Pixels(src.Dx, src.Dy) |-> src.pix[<<src.Dx - 1 - p[1], p[2]>>]]]

\* "flip" (src/main.go:546-555).
flipAction(G, selectedIndex) ==
  IF ~InRange(G, selectedIndex) THEN Panic(G)
  ELSE LET visage == At(G, selectedIndex)
           id == FreshId(G, tasks)
       IN [G EXCEPT !.images = (id :> FlippedImage(G.images[visage.image])) @@ @,
                    !.visages[selectedIndex + 1] = [visage EXCEPT !.image = id]]

\* A rotation that would translate back by (Dx/2, Dy/2), the centre of the
\* source, instead of (Dy/2, Dx/2): source pixel (i, j) lands on
\* ((Dx + Dy)/2 - 1 - j, i + (Dy - Dx)/2), off the new image in part.
RotatedImageOffCentre(src) ==
  [Dx |-> src.Dy, Dy |-> src.Dx,
   pix |-> [p \in Pixels(src.Dy, src.Dx) |->
              LET i == p[2] - GoDiv(src.Dy - src.Dx, 2)
                  j == GoDiv(src.Dx + src.Dy, 2) - 1 - p[1]
              IN IF <<i, j>> \in Pixels(src.Dx, src.Dy) THEN src.pix[<<i, j>>] ELSE 0]]

\* The image the rotation draws into a Dy x Dx image: Translate(-Dx/2, -Dy/2),
\* Rotate(Pi/2), Translate(Dy/2, Dx/2) sends source pixel (i, j) to
\* (Dy - 1 - j, i).
RotatedImage(src) ==
  [Dx |-> src.Dy, Dy |-> src.Dx,
   pix |-> [p \in Pixels(src.Dy, src.Dx) |-> src.pix[<<p[2], src.Dy - 1 - p[1]>>]]]

\* A rotate that would leave the visage's w and h as they were.
rotateActionKeepsSize(G, selectedIndex) ==
  IF ~InRange(G, selectedIndex) THEN Panic(G)
  ELSE LET visage == At(G, selectedIndex)
           id == FreshId(G, tasks)
           rotatedImage == RotatedImage(G.images[visage.image])
       IN [G EXCEPT !.images = (id :> rotatedImage) @@ @,
                    !.visages[selectedIndex + 1] = [visage EXCEPT !.image = id]]

\* "rotate" (src/main.go:563-578): w, h become the rotated image's bounds.
rotateAction(G, selectedIndex) ==
  IF ~InRange(G, selectedIndex) THEN Panic(G)
  ELSE LET visage == At(G, selectedIndex)
           id == FreshId(G, tasks)
           rotatedImage == RotatedImage(G.images[visage.image])
       IN [G EXCEPT !.images = (id :> rotatedImage) @@ @,
                    !.visages[selectedIndex + 1] =
                        [visage EXCEPT !.image = id,
                                       !.w = rotatedImage.Dx,
                                       !.h = rotatedImage.Dy]]

\* A delete that would leave the erase tool as it was.
deleteActionKeepsTool(G, selectedIndex) ==
  IF ~InRange(G, selectedIndex) THEN Panic(G)
  ELSE [G EXCEPT !.visages = Before(G.visages, selectedIndex) \o After(G.visages, selectedIndex),
                 !.tail = <<G.visages[Len(G.visages)]>> \o @,
                 !.selected = FALSE,
                 !.selectedIndex = 0]

\* A delete that would select the new last visage instead of deselecting.
deleteActionSelectsLast(G, selectedIndex) ==
  IF ~InRange(G, selectedIndex) THEN Panic(G)
  ELSE [G EXCEPT !.visages = Before(G.visages, selectedIndex) \o After(G.visages, selectedIndex),
                 !.tail = <<G.visages[Len(G.visages)]>> \o @,
                 !.selected = Len(G.visages) > 1,
                 !.selectedIndex = IF Len(G.visages) > 1 THEN Len(G.visages) - 2 ELSE 0,
                 !.erasing = FALSE]

\* "delete" (src/main.go:586-591): append(s[:i], s[i+1:]...) moves the
\* elements behind i down one slot, in place; the last slot keeps what it held.
deleteAction(G, selectedIndex) ==
  IF ~InRange(G, selectedIndex) THEN Panic(G)
  ELSE [G EXCEPT !.visages = Before(G.visages, selectedIndex) \o After(G.visages, selectedIndex),
                 !.tail = <<G.visages[Len(G.visages)]>> \o @,
                 !.selected = FALSE,
                 !.selectedIndex = 0,
                 !.erasing = FALSE]

\* "copy" (src/main.go:599-613): DrawImage(visage.image, nil) into a new image.
copyAction(G, selectedIndex) ==
  IF ~InRange(G, selectedIndex) THEN Panic(G)
  ELSE LET visage == At(G, selectedIndex)
           id == FreshId(G, tasks)
           newVisage == [x |-> visage.x + copyOffset, y |-> visage.y + copyOffset,
                         w |-> visage.w, h |-> visage.h, image |-> id]
       IN [Appended(G, newVisage) EXCEPT !.images = (id :> G.images[visage.image]) @@ @,
                                         !.selectedIndex = Len(G.visages)]

\* "erase" (src/main.go:621-624).
eraseAction(G, selectedIndex) == [G EXCEPT !.erasing = ~@]

\* The actions that load and store the slice header g.visages.
WritesHeader(b) == b \in {btnMove, btnDelete, btnCopy}

\* button.action(selectedIndex).  g.wroteHeader notes, within one handler, that
\* an action has stored g.visages; it is FALSE between handlers.
buttonAction(G, b, selectedIndex) ==
  LET G1 == CASE b = btnMove -> moveAction(G, selectedIndex)
              [] b = btnFlip -> flipAction(G, selectedIndex)
              [] b = btnRotate -> rotateAction(G, selectedIndex)
              [] b = btnDelete -> deleteAction(G, selectedIndex)
              [] b = btnCopy -> copyAction(G, selectedIndex)
              [] b = btnErase -> eraseAction(G, selectedIndex)
  IN IF WritesHeader(b) /\ ~G1.panicked THEN [G1 EXCEPT !.wroteHeader = TRUE] ELSE G1

(***************************************************************************)
(* The frame loop's handlers, each a function of the Game state G and the  *)
(* pointer position.  A handler that indexes g.visages[g.selectedIndex]    *)
(* out of range panics.                                                    *)
(***************************************************************************)
InSquare(x, y, cx, cy) ==
  x >= cx - handleArea /\ x <= cx + handleArea /\ y >= cy - handleArea /\ y <= cy + handleArea

\* The handle the pointer is on, in the order of the if / else-if chain.
HandleAt(v, x, y) ==
  IF InSquare(x, y, v.x, v.y) THEN handleTopLeft
  ELSE IF InSquare(x, y, v.x + v.w, v.y) THEN handleTopRight
  ELSE IF InSquare(x, y, v.x, v.y + v.h) THEN handleBottomLeft
  ELSE IF InSquare(x, y, v.x + v.w, v.y + v.h) THEN handleBottomRight
  ELSE handleNone

\* checkResizeHandles (src/main.go:214-229).
checkResizeHandles(G, x, y) ==
  IF ~InRange(G, G.selectedIndex) THEN Panic(G)
  ELSE LET hd == HandleAt(At(G, G.selectedIndex), x, y) IN
    IF hd = handleNone THEN G
    ELSE [G EXCEPT !.resizing = TRUE, !.resizeHandle = hd]

InSliderBand(v, x, y) ==
  /\ x >= v.x + GoDiv(v.w, 2) - GoDiv(sliderWidth, 2) - sliderMouseOffset
  /\ x <= v.x + GoDiv(v.w, 2) - GoDiv(sliderWidth, 2) + sliderWidth + sliderMouseOffset
  /\ y >= v.y + v.h + sliderYOffset - sliderMouseOffset
  /\ y <= v.y + v.h + sliderYOffset + sliderHeight + sliderMouseOffset

\* handleErasing (src/main.go:261-271): the slider, then the erase, both.
handleErasing(G, x, y) ==
  IF ~InRange(G, G.selectedIndex) THEN Panic(G)
  ELSE LET v == At(G, G.selectedIndex)
           G1 == IF InSliderBand(v, x, y)
                 THEN updateSliderValue([G EXCEPT !.sliderDragging = TRUE],
                                        x - (v.x + GoDiv(v.w, 2) - GoDiv(sliderWidth, 2)))
                 ELSE G
           p == getPixelCoordinates(G1, v, x, y)
       IN erasePixels(G1, v, p[1], p[2])

OnButton(v, b, x, y) ==
  /\ x >= v.x + buttonXOffset /\ x <= v.x + buttonXOffset + buttonSize
  /\ y >= v.y + buttonYOffset(b) /\ y <= v.y + buttonYOffset(b) + buttonSize

\* The loop of checkButtonClicks from button b on; v is the copy taken on entry.
RECURSIVE clickFrom(_, _, _, _, _)
clickFrom(G, v, b, x, y) ==
  IF b > 5 \/ G.panicked THEN G
  ELSE IF OnButton(v, b, x, y)
       THEN LET G1 == buttonAction(G, b, G.selectedIndex)
            IN clickFrom(IF G1.panicked THEN G1 ELSE [G1 EXCEPT !.clicking = TRUE],
                         v, b + 1, x, y)
       ELSE clickFrom(G, v, b + 1, x, y)

\* checkButtonClicks (src/main.go:273-281).
checkButtonClicks(G, x, y) ==
  IF ~InRange(G, G.selectedIndex) THEN Panic(G)
  ELSE clickFrom(G, At(G, G.selectedIndex), 0, x, y)

Contains(v, x, y) == x >= v.x /\ x <= v.x + v.w /\ y >= v.y /\ y <= v.y + v.h

\* A hit test whose loop would run from the back of the list to the front.
checkVisageDragBackFirst(G, x, y) ==
  LET hits == {i \in 0..(Len(G.visages) - 1) : Contains(At(G, i), x, y)} IN
  IF hits # {}
  THEN LET i == CHOOSE k \in hits : \A j \in hits : k <= j
           v == At(G, i)
       IN [G EXCEPT !.dragging = TRUE, !.selected = TRUE, !.selectedIndex = i,
                    !.dragOffsetX = x - v.x, !.dragOffsetY = y - v.y]
  ELSE IF ~G.dragging THEN [G EXCEPT !.selected = FALSE] ELSE G

\* checkVisageDrag (src/main.go:305-321): the last visage under the pointer.
checkVisageDrag(G, x, y) ==
  LET hits == {i \in 0..(Len(G.visages) - 1) : Contains(At(G, i), x, y)} IN
  IF hits # {}
  THEN LET i == CHOOSE k \in hits : \A j \in hits : j <= k
           v == At(G, i)
       IN [G EXCEPT !.dragging = TRUE, !.selected = TRUE, !.selectedIndex = i,
                    !.dragOffsetX = x - v.x, !.dragOffsetY = y - v.y]
  ELSE IF ~G.dragging THEN [G EXCEPT !.selected = FALSE] ELSE G

\* A drag that would put the visage's corner under the pointer.
dragSelectedVisageToPointer(G, x, y) ==
  IF ~InRange(G, G.selectedIndex) THEN Panic(G)
  ELSE [G EXCEPT !.visages[G.selectedIndex + 1].x = x,
                 !.visages[G.selectedIndex + 1].y = y]

\* dragSelectedVisage (src/main.go:323-327).
dragSelectedVisage(G, x, y) ==
  IF ~InRange(G, G.selectedIndex) THEN Panic(G)
  ELSE [G EXCEPT !.visages[G.selectedIndex + 1].x = x - G.dragOffsetX,
                 !.visages[G.selectedIndex + 1].y = y - G.dragOffsetY]

\* A switch whose top-left case would grow the visage and leave x, y alone.
ResizedInPlace(v, hd, x, y) ==
  CASE hd = handleTopLeft ->
         [v EXCEPT !.w = v.w + (v.x - x), !.h = v.h + (v.y - y)]
    [] hd = handleTopRight ->
         [v EXCEPT !.w = x - v.x, !.h = v.h + (v.y - y), !.y = y]
    [] hd = handleBottomLeft ->
         [v EXCEPT !.w = v.w + (v.x - x), !.h = y - v.y, !.x = x]
    [] hd = handleBottomRight ->
         [v EXCEPT !.w = x - v.x, !.h = y - v.y]
    [] OTHER -> v

\* The switch of resizeSelectedVisage.
Resized(v, hd, x, y) ==
  CASE hd = handleTopLeft ->
         [v EXCEPT !.w = v.w + (v.x - x), !.h = v.h + (v.y - y), !.x = x, !.y = y]
    [] hd = handleTopRight ->
         [v EXCEPT !.w = x - v.x, !.h = v.h + (v.y - y), !.y = y]
    [] hd = handleBottomLeft ->
         [v EXCEPT !.w = v.w + (v.x - x), !.h = y - v.y, !.x = x]
    [] hd = handleBottomRight ->
         [v EXCEPT !.w = x - v.x, !.h = y - v.y]
    [] OTHER -> v

\* A resize that would let w and h go below 1.
Unclamped(v) == v

\* Clamps that would catch negative sizes only.
ClampedNegative(v) ==
  [v EXCEPT !.w = IF v.w < 0 THEN 1 ELSE v.w,
            !.h = IF v.h < 0 THEN 1 ELSE v.h]

\* Clamps that would stop at 0 instead of 1.
ClampedAtZero(v) ==
  [v EXCEPT !.w = IF v.w < 0 THEN 0 ELSE v.w,
            !.h = IF v.h < 0 THEN 0 ELSE v.h]

\* The two clamps that end resizeSelectedVisage.
Clamped(v) ==
  [v EXCEPT !.w = IF v.w < 1 THEN 1 ELSE v.w,
            !.h = IF v.h < 1 THEN 1 ELSE v.h]

\* resizeSelectedVisage (src/main.go:329-355).
resizeSelectedVisage(G, x, y) ==
  IF ~InRange(G, G.selectedIndex) THEN Panic(G)
  ELSE [G EXCEPT !.visages[G.selectedIndex + 1] =
                     Clamped(Resized(At(G, G.selectedIndex), G.resizeHandle, x, y))]

\* A reset that would switch the erase tool off as well.
resetActionsAndTool(G) ==
  [G EXCEPT !.dragging = FALSE, !.resizing = FALSE, !.clicking = FALSE,
            !.panning = FALSE, !.sliderDragging = FALSE, !.resizeHandle = handleNone,
            !.erasing = FALSE]

\* resetActions (src/main.go:357-364).
resetActions(G) ==
  [G EXCEPT !.dragging = FALSE, !.resizing = FALSE, !.clicking = FALSE,
            !.panning = FALSE, !.sliderDragging = FALSE, !.resizeHandle = handleNone]

\* A pan that would keep the point recorded by its first frame.
handlePanningFromStart(G, x, y) ==
  IF ~G.panning
  THEN [G EXCEPT !.panStartX = x, !.panStartY = y, !.panning = TRUE]
  ELSE LET dx == x - G.panStartX
           dy == y - G.panStartY
       IN [G EXCEPT !.visages = [i \in DOMAIN G.visages |->
                                   [G.visages[i] EXCEPT !.x = @ + dx, !.y = @ + dy]]]

\* handlePanning (src/main.go:366-381).
handlePanning(G, x, y) ==
  IF ~G.panning
  THEN [G EXCEPT !.panStartX = x, !.panStartY = y, !.panning = TRUE]
  ELSE LET dx == x - G.panStartX
           dy == y - G.panStartY
       IN [G EXCEPT !.visages = [i \in DOMAIN G.visages |->
                                   [G.visages[i] EXCEPT !.x = @ + dx, !.y = @ + dy]],
                    !.panStartX = x, !.panStartY = y]

\* handleLeftMouseButton (src/main.go:283-303).
handleLeftMouseButton(G, x, y) ==
  IF ~G.dragging /\ ~G.resizing
  THEN LET G1 == IF G.selected THEN checkResizeHandles(G, x, y) ELSE G
           G2 == IF G.selected /\ ~G1.panicked /\ ~G1.clicking
                 THEN checkButtonClicks(G1, x, y) ELSE G1
           G3 == IF G.selected /\ ~G2.panicked /\ G2.erasing
                 THEN handleErasing(G2, x, y) ELSE G2
       IN IF ~G3.panicked /\ ~G3.resizing /\ ~G3.clicking /\ ~G3.erasing
          THEN checkVisageDrag(G3, x, y)
          ELSE G3
  ELSE IF G.dragging THEN dragSelectedVisage(G, x, y)
  ELSE resizeSelectedVisage(G, x, y)

\* handleMouseActions (src/main.go:204-212).
handleMouseActions(G, left, right, x, y) ==
  IF left THEN handleLeftMouseButton(G, x, y)
  ELSE IF right THEN handlePanning(G, x, y)
  ELSE resetActions(G)

\* handleCursor (src/main.go:146-181) reads g.visages[g.selectedIndex] when a
\* visage is selected and then picks a cursor shape.  The shape is output only
\* (nothing reads g.cursor but the test that avoids setting it twice): the model
\* keeps the read, which can panic, and not the shape.
handleCursor(G, x, y) ==
  IF G.panicked THEN G
  ELSE IF G.selected /\ ~InRange(G, G.selectedIndex) THEN Panic(G)
  ELSE G

(***************************************************************************)
(* handleKeybinds (src/main.go:183-202).  Five keys are bound, to the      *)
(* first five buttons; the loop ranges over a Go map, whose iteration      *)
(* order is unspecified: order is the order this frame's loop happens to   *)
(* visit the keys that went down.                                          *)
(***************************************************************************)
Keys == {"E", "F", "R", "D", "C"}

keyButton(k) ==
  CASE k = "E" -> btnMove
    [] k = "F" -> btnFlip
    [] k = "R" -> btnRotate
    [] k = "D" -> btnDelete
    [] k = "C" -> btnCopy

RECURSIVE keyActions(_, _)
keyActions(G, order) ==
  IF order = <<>> \/ G.panicked THEN G
  ELSE keyActions(buttonAction(G, keyButton(Head(order)), G.selectedIndex), Tail(order))

Orders(S) ==
  {o \in [1..Cardinality(S) -> S] : \A i, j \in DOMAIN o : i # j => o[i] # o[j]}

(***************************************************************************)
(* Inputs of the model.  A profile names the inputs one specification      *)
(* feeds the program: where the pointer may be when a press begins (or     *)
(* goes on without a drag or a resize), while a visage is dragged, while   *)
(* it is resized, while only the secondary button is held and while no     *)
(* button is held; the keys that may be down; the batches a drop may hold. *)
(***************************************************************************)
PointerChoices(prof, G, left, right) ==
  IF left THEN (IF G.dragging THEN prof.drag
                ELSE IF G.resizing THEN prof.resize
                ELSE prof.press)
  ELSE IF right THEN prof.right
  ELSE prof.hover

\* What the walk meets: a PNG of some size, a file that is no PNG, or an entry
\* whose Info or Open fails.
PNG == <<"png", 20, 2>>
NOTPNG == <<"notpng", 0, 0>>
IOERR == <<"ioerr", 0, 0>>

\* A task between Lock and Unlock has loaded the header of g.visages: snap are
\* the elements it showed then and cap its capacity; shared, that g.visages is
\* still on that array; late, the array as the frame loop left it, if not.
IdleTask ==
  [pc |-> "idle", files |-> <<>>, snap |-> <<>>, image |-> 0,
   cap |-> 0, shared |-> FALSE, late |-> <<>>]
DoneTask == [IdleTask EXCEPT !.pc = "done"]

\* The walk after the entry at the head of the list: on to the next entry, or
\* the goroutine ends.
Walked(task) ==
  IF Len(task.files) <= 1 THEN DoneTask
  ELSE [IdleTask EXCEPT !.pc = "walk", !.files = Tail(task.files)]

\* The model follows the canvas inside a box, and lists of at most MaxVisages.
InBox(G) ==
  /\ Len(G.visages) <= MaxVisages
  /\ \A i \in DOMAIN G.visages :
       /\ G.visages[i].x >= -BoxMargin /\ G.visages[i].x <= CoordLimit - BoxMargin
       /\ G.visages[i].y >= -BoxMargin /\ G.visages[i].y <= CoordLimit - BoxMargin
       /\ G.visages[i].w <= CoordLimit /\ G.visages[i].h <= CoordLimit

(***************************************************************************)
(* The state after main() has built the Game (src/main.go:485-488).        *)
(***************************************************************************)
NewGame ==
  [visages |-> <<>>, images |-> <<>>,
   selected |-> FALSE, selectedIndex |-> 0,
   dragging |-> FALSE, dragOffsetX |-> 0, dragOffsetY |-> 0,
   resizing |-> FALSE, resizeHandle |-> handleNone,
   panning |-> FALSE, panStartX |-> 0, panStartY |-> 0,
   clicking |-> FALSE, erasing |-> FALSE,
   sliderDragging |-> FALSE, sliderValue |-> sliderInitial,
   wroteHeader |-> FALSE, panicked |-> FALSE,
   tail |-> <<>>, old |-> <<>>, moved |-> FALSE]

Init ==
  /\ g = NewGame
  /\ err = 0
  /\ m = 0
  /\ pressedKeys = [k \in Keys |-> FALSE]
  /\ tasks = [t \in 1..MaxBatches |-> IdleTask]
  /\ pc = "errors"

\* The same state, of a run in which one more batch is dropped, so that the
\* walks of two batches can fail.
InitErrors ==
  /\ g = NewGame
  /\ err = 0
  /\ m = 0
  /\ pressedKeys = [k \in Keys |-> FALSE]
  /\ tasks = [t \in 1..(MaxBatches + 1) |-> IdleTask]
  /\ pc = "errors"

(***************************************************************************)
(* Update (src/main.go:383-394), in three steps.                           *)
(***************************************************************************)
\* handleErrors takes and releases the mutex (its result is dropped by Update),
\* then handleDroppedFiles starts a goroutine when files were dropped.
FrameBegin(prof) ==
  /\ pc = "errors" /\ ~g.panicked
  /\ m = 0
  /\ \/ UNCHANGED tasks
     \/ \E t \in DOMAIN tasks, batch \in prof.batches :
          /\ tasks[t].pc = "idle"
          /\ \A u \in 1..(t - 1) : tasks[u].pc # "idle"
          /\ tasks' = [tasks EXCEPT ![t] = [IdleTask EXCEPT !.pc = "walk", !.files = batch]]
  /\ pc' = "keys"
  /\ UNCHANGED <<g, err, m, pressedKeys>>

\* An ingest task that is about to append: a decoded PNG in hand, the mutex free.
Ready(t) ==
  /\ tasks[t].pc = "walk" /\ Head(tasks[t].files)[1] = "png"
  /\ m = 0

\* The state a handler leaves, stored: the step is taken when it stays in the box.
Stored(G) ==
  /\ InBox(G)
  /\ g' = Collect([G EXCEPT !.wroteHeader = FALSE], tasks')

\* The tasks after a handler that no critical section ran in: a task that has
\* the header of the array the handler has left keeps that array.
Seen(G) ==
  [t \in DOMAIN tasks |->
     IF tasks[t].pc = "locked" /\ tasks[t].shared /\ G.moved
     THEN [tasks[t] EXCEPT !.shared = FALSE, !.late = G.old]
     ELSE tasks[t]]

\* A handler during which task t runs its whole critical section between an
\* action's load of g.visages and its store: the store wins, the appended visage
\* is lost.
LosesAppend(G, t) ==
  /\ Ready(t)
  /\ G.wroteHeader
  /\ tasks' = [tasks EXCEPT ![t] = Walked(tasks[t])]

\* What a handler of the frame loop leaves behind, G, becomes the program's
\* state; a goroutine that still holds the lock sees the writes or, once
\* (LosesAppend), has its append overwritten.
Lands(G) ==
  /\ \/ tasks' = Seen(G)
     \/ \E t \in DOMAIN tasks : LosesAppend(G, t)
  /\ Stored(G)

\* A handleKeybinds that would invoke the action of every key that is down,
\* whether or not it was down in the frame before.
FrameKeysLevel(prof) ==
  /\ pc = "keys" /\ ~g.panicked
  /\ \E pressed \in SUBSET prof.keys :
       /\ Cardinality(pressed) <= MaxKeysDown
       /\ \E order \in Orders(pressed) :
            Lands(keyActions(g, order))
       /\ pressedKeys' = [k \in Keys |-> k \in pressed]
  /\ pc' = "mouse"
  /\ UNCHANGED <<err, m>>

\* handleKeybinds.
FrameKeys(prof) ==
  /\ pc = "keys" /\ ~g.panicked
  /\ \E pressed \in SUBSET prof.keys :
       /\ Cardinality(pressed) <= MaxKeysDown
       /\ \E order \in Orders({k \in pressed : ~pressedKeys[k]}) :
            Lands(keyActions(g, order))
       /\ pressedKeys' = [k \in Keys |-> k \in pressed]
  /\ pc' = "mouse"
  /\ UNCHANGED <<err, m>>

\* handleMouseActions, then handleCursor.
FrameMouse(prof) ==
  /\ pc = "mouse" /\ ~g.panicked
  /\ \E left, right \in BOOLEAN :
     \E p \in PointerChoices(prof, g, left, right) :
       Lands(handleCursor(handleMouseActions(g, left, right, p[1], p[2]), p[1], p[2]))
  /\ pc' = "errors"
  /\ UNCHANGED <<err, m, pressedKeys>>

(***************************************************************************)
(* The goroutine of handleDroppedFiles (src/main.go:95-142): WalkDir calls *)
(* the callback on each entry in turn.                                     *)
(***************************************************************************)
\* A decode failure that would end the walk.
IngestSkipStops(t) ==
  /\ tasks[t].pc = "walk" /\ Head(tasks[t].files)[1] = "notpng"
  /\ tasks' = [tasks EXCEPT ![t] = DoneTask]
  /\ UNCHANGED <<g, err, m, pressedKeys, pc>>

\* An entry that is no PNG: logged, the walk goes on.
IngestSkip(t) ==
  /\ tasks[t].pc = "walk" /\ Head(tasks[t].files)[1] = "notpng"
  /\ tasks' = [tasks EXCEPT ![t] = Walked(tasks[t])]
  /\ UNCHANGED <<g, err, m, pressedKeys, pc>>

\* An entry whose Info or Open fails: the callback returns the error, WalkDir
\* stops and returns it.
IngestFail(t) ==
  /\ tasks[t].pc = "walk" /\ Head(tasks[t].files)[1] = "ioerr"
  /\ tasks' = [tasks EXCEPT ![t] = [@ EXCEPT !.pc = "failed"]]
  /\ UNCHANGED <<g, err, m, pressedKeys, pc>>

\* A record that would store the error whether or not the slot is taken.
IngestRecordLast(t) ==
  /\ tasks[t].pc = "failed"
  /\ m = 0
  /\ err' = t
  /\ tasks' = [tasks EXCEPT ![t] = DoneTask]
  /\ UNCHANGED <<g, m, pressedKeys, pc>>

\* g.m.Lock(); if g.err == nil { g.err = err }; g.m.Unlock().
IngestRecord(t) ==
  /\ tasks[t].pc = "failed"
  /\ m = 0
  /\ err' = IF err = 0 THEN t ELSE err
  /\ tasks' = [tasks EXCEPT ![t] = DoneTask]
  /\ UNCHANGED <<g, m, pressedKeys, pc>>

\* A decoded PNG: NewImageFromImage, g.m.Lock(), and the load of the header of
\* g.visages that begins the append.  Update holds no lock while it changes
\* g.visages, so its handlers can run between this load and the store.
IngestLock(t) ==
  /\ Ready(t)
  /\ Len(g.visages) < MaxVisages
  /\ LET f == Head(tasks[t].files)
         id == FreshId(g, tasks)
     IN /\ g' = [g EXCEPT !.images = (id :> DecodedImage(f[2], f[3])) @@ @]
        /\ tasks' = [tasks EXCEPT ![t] = [@ EXCEPT !.pc = "locked", !.snap = g.visages,
                                                   !.image = id,
                                                   !.cap = Len(Array(g)),
                                                   !.shared = TRUE]]
  /\ m' = t
  /\ UNCHANGED <<err, pressedKeys, pc>>

\* The lists the append of task t can store, each with the slots behind it.
\* With room in the array the task loaded the header of, newVisage goes into
\* the slot behind the len it loaded, whatever the handlers have put into the
\* array since.  Without room growslice copies the elements to a new array:
\* as they were when the header was loaded, or as the handlers have left them.
Appends(t, newVisage) ==
  LET n == Len(tasks[t].snap)
      arr == IF tasks[t].shared THEN Array(g) ELSE tasks[t].late
      grown == Zeros(GrownCap(n) - n - 1)
  IN IF n < tasks[t].cap
     THEN {<<Append(SubSeq(arr, 1, n), newVisage), SubSeq(arr, n + 2, Len(arr))>>}
     ELSE {<<Append(tasks[t].snap, newVisage), grown>>,
           <<Append(SubSeq(arr, 1, n), newVisage), grown>>}

\* The store that ends the append, then g.m.Unlock().
IngestAppend(t) ==
  /\ tasks[t].pc = "locked"
  /\ LET img == g.images[tasks[t].image]
         newVisage == [x |-> ingestX, y |-> ingestY, w |-> img.Dx, h |-> img.Dy,
                       image |-> tasks[t].image]
     IN /\ tasks' = [tasks EXCEPT ![t] = Walked(tasks[t])]
        /\ \E a \in Appends(t, newVisage) :
             g' = Collect([g EXCEPT !.visages = a[1], !.tail = a[2]], tasks')
  /\ m' = 0
  /\ UNCHANGED <<err, pressedKeys, pc>>

Ingest ==
  \E t \in DOMAIN tasks :
    \/ IngestSkip(t)
    \/ IngestFail(t)
    \/ IngestRecord(t)
    \/ IngestLock(t)
    \/ IngestAppend(t)

(***************************************************************************)
(* Spec: the collection under drops, hotkeys, clicks on the toolbar,       *)
(* selection and dragging.                                                 *)
(***************************************************************************)
Main ==
  [press |-> { <<50, 41>>,     \* inside a visage at the ingest origin, on no handle
               <<80, 71>>,     \* inside its copy
               <<0, 0>>,       \* empty canvas
               <<20, 170>>, <<20, 200>>,  \* delete, copy of a visage at the origin
               <<50, 230>> },  \* copy of a visage at (70, 70)
   drag |-> {<<50, 41>>, <<80, 71>>},
   resize |-> {<<80, 71>>},
   right |-> {<<0, 0>>},
   hover |-> {<<0, 0>>},
   keys |-> {"D", "C"},
   batches |-> {<<PNG, NOTPNG>>, <<PNG, PNG>>, <<IOERR>>}]

Next == FrameBegin(Main) \/ FrameKeys(Main) \/ FrameMouse(Main) \/ Ingest

Spec == Init /\ [][Next]_vars

(***************************************************************************)
(* SpecSelect: two visages dropped together, one upon the other; presses   *)
(* on them, beside them and on the delete button; drags that carry the     *)
(* selected one down so that the two overlap in part; the hotkey D.        *)
(***************************************************************************)
Selecting ==
  [press |-> { <<50, 41>>,     \* inside a visage at the ingest origin, on no handle
               <<0, 0>>,       \* empty canvas
               <<20, 170>> },  \* the delete button of a visage at the origin
   drag |-> {<<50, 41>>, <<50, 42>>},  \* the second carries the visage a row or two down
   resize |-> {<<50, 41>>},
   right |-> {<<0, 0>>},
   hover |-> {<<0, 0>>},
   keys |-> {"D"},
   batches |-> {<<PNG, PNG>>, <<NOTPNG>>, <<IOERR>>}]

NextSelect ==
  FrameBegin(Selecting) \/ FrameKeys(Selecting) \/ FrameMouse(Selecting) \/ Ingest

SpecSelect == Init /\ [][NextSelect]_vars

(***************************************************************************)
(* SpecResize: one visage, selected, resized by its bottom-right handle    *)
(* to both sides of its left edge, and dragged; no hotkey.                 *)
(***************************************************************************)
Resizing ==
  [press |-> { <<50, 41>>,     \* inside the visage at the ingest origin, on no handle
               <<60, 50>> },   \* on its bottom-right handle only
   drag |-> {<<50, 41>>},
   resize |-> { <<30, 50>>,    \* left of the left edge: x - v.x = -10
                <<70, 60>> },  \* right of it and lower
   right |-> {<<0, 0>>},
   hover |-> {<<0, 0>>},
   keys |-> {},
   batches |-> {<<PNG, NOTPNG>>, <<IOERR>>}]

NextResize ==
  FrameBegin(Resizing) \/ FrameKeys(Resizing) \/ FrameMouse(Resizing) \/ Ingest

SpecResize == Init /\ [][NextResize]_vars

(***************************************************************************)
(* SpecRotate: the same presses, with the hotkeys R and F: the visage is   *)
(* rotated and mirrored before and after it is resized.                    *)
(***************************************************************************)
Rotating == [Resizing EXCEPT !.keys = {"R", "F"}]

NextRotate ==
  FrameBegin(Rotating) \/ FrameKeys(Rotating) \/ FrameMouse(Rotating) \/ Ingest

SpecRotate == Init /\ [][NextRotate]_vars

(***************************************************************************)
(* SpecTurn: one visage turned by the hotkey R, selected or not, and       *)
(* pressed where it lay before the turn.                                   *)
(***************************************************************************)
Turning ==
  [press |-> { <<50, 41>>,     \* inside the visage as dropped; right of it once turned
               <<0, 0>> },     \* empty canvas
   drag |-> {<<50, 41>>},
   resize |-> {<<50, 41>>},
   right |-> {<<0, 0>>},
   hover |-> {<<0, 0>>},
   keys |-> {"R"},
   batches |-> {<<PNG, NOTPNG>>, <<IOERR>>}]

NextTurn ==
  FrameBegin(Turning) \/ FrameKeys(Turning) \/ FrameMouse(Turning) \/ Ingest

SpecTurn == Init /\ [][NextTurn]_vars

(***************************************************************************)
(* SpecPan: two visages dropped together, the canvas panned with the       *)
(* secondary button between two points, to and fro, and a visage pressed   *)
(* where it was dropped; no hotkey.                                        *)
(***************************************************************************)
Panning ==
  [press |-> { <<50, 41>>,     \* inside a visage at the ingest origin, on no handle
               <<0, 0>> },     \* empty canvas, as long as nothing was panned there
   drag |-> {<<50, 41>>},
   resize |-> {<<50, 41>>},
   right |-> {<<0, 0>>, <<30, 20>>},
   hover |-> {<<0, 0>>},
   keys |-> {},
   batches |-> {<<PNG, PNG>>, <<NOTPNG>>, <<IOERR>>}]

NextPan ==
  FrameBegin(Panning) \/ FrameKeys(Panning) \/ FrameMouse(Panning) \/ Ingest

SpecPan == Init /\ [][NextPan]_vars

(***************************************************************************)
(* SpecErrors: two batches dropped, the walk of each failing at its first  *)
(* or its second entry, while the loop goes on; no hotkey.                 *)
(***************************************************************************)
Failing ==
  [press |-> { <<50, 41>>,     \* inside a visage at the ingest origin, on no handle
               <<0, 0>> },     \* empty canvas
   drag |-> {<<50, 41>>},
   resize |-> {<<50, 41>>},
   right |-> {<<0, 0>>},
   hover |-> {<<0, 0>>},
   keys |-> {},
   batches |-> {<<IOERR>>, <<NOTPNG, IOERR>>, <<PNG, IOERR>>}]

NextErrors ==
  FrameBegin(Failing) \/ FrameKeys(Failing) \/ FrameMouse(Failing) \/ Ingest

SpecErrors == InitErrors /\ [][NextErrors]_vars

(***************************************************************************)
(* SpecDecode: a batch in which a file that is no PNG comes before a PNG,  *)
(* or between two; no hotkey.                                              *)
(***************************************************************************)
Decoding ==
  [press |-> { <<50, 41>>,     \* inside a visage at the ingest origin, on no handle
               <<0, 0>> },     \* empty canvas
   drag |-> {<<50, 41>>},
   resize |-> {<<50, 41>>},
   right |-> {<<0, 0>>},
   hover |-> {<<0, 0>>},
   keys |-> {},
   batches |-> {<<NOTPNG, PNG>>, <<PNG, NOTPNG, PNG>>, <<IOERR>>}]

NextDecode ==
  FrameBegin(Decoding) \/ FrameKeys(Decoding) \/ FrameMouse(Decoding) \/ Ingest

SpecDecode == Init /\ [][NextDecode]_vars

(***************************************************************************)
(* SpecKeys: one or two visages, never selected, and the keys R and D,     *)
(* pressed, held over frames and released.                                 *)
(***************************************************************************)
Typing ==
  [press |-> {<<0, 0>>},       \* empty canvas
   drag |-> {<<0, 0>>},
   resize |-> {<<0, 0>>},
   right |-> {<<0, 0>>},
   hover |-> {<<0, 0>>},
   keys |-> {"R", "D"},
   batches |-> {<<PNG, PNG>>, <<NOTPNG, IOERR>>}]

NextKeys ==
  FrameBegin(Typing) \/ FrameKeys(Typing) \/ FrameMouse(Typing) \/ Ingest

SpecKeys == Init /\ [][NextKeys]_vars

(***************************************************************************)
(* SpecOrder: three visages dropped together; the front one is dragged     *)
(* down and off the others, the next one selected, and the selection       *)
(* reordered by the move button; no hotkey.                                *)
(***************************************************************************)
Ordering ==
  [press |-> { <<50, 41>>,     \* inside a visage at the ingest origin, on no handle
               <<20, 60>> },   \* the move button of a visage at the origin or dragged down
   drag |-> {<<50, 41>>, <<50, 45>>},  \* the second carries the visage off the others
   resize |-> {<<50, 41>>},
   right |-> {<<0, 0>>},
   hover |-> {<<0, 0>>},
   keys |-> {},
   batches |-> {<<PNG, PNG, PNG>>, <<NOTPNG>>, <<IOERR>>}]

NextOrder ==
  FrameBegin(Ordering) \/ FrameKeys(Ordering) \/ FrameMouse(Ordering) \/ Ingest

SpecOrder == Init /\ [][NextOrder]_vars

(***************************************************************************)
(* SpecBrush: one visage, selected, resized by its bottom-right handle     *)
(* onto its left edge, with the erase tool switched on and off before and  *)
(* after; no hotkey.                                                       *)
(***************************************************************************)
Brushing ==
  [press |-> { <<50, 41>>,     \* inside the visage as dropped, on no handle
               <<20, 245>>,    \* the erase button
               <<60, 50>> },   \* on the bottom-right handle of the visage as dropped
   drag |-> {<<50, 41>>},
   resize |-> {<<40, 50>>},    \* on the left edge: x - v.x = 0
   right |-> {<<0, 0>>},
   hover |-> {<<0, 0>>},
   keys |-> {},
   batches |-> {<<PNG, NOTPNG>>, <<IOERR>>}]

NextBrush ==
  FrameBegin(Brushing) \/ FrameKeys(Brushing) \/ FrameMouse(Brushing) \/ Ingest

SpecBrush == Init /\ [][NextBrush]_vars

(***************************************************************************)
(* SpecQuarter: two visages dropped together, none selected; the key R     *)
(* turns the visage at index 0.                                            *)
(***************************************************************************)
Quartering ==
  [press |-> {<<0, 0>>},       \* empty canvas
   drag |-> {<<50, 41>>},
   resize |-> {<<50, 41>>},
   right |-> {<<0, 0>>},
   hover |-> {<<0, 0>>},
   keys |-> {"R"},
   batches |-> {<<PNG, PNG>>, <<NOTPNG, IOERR>>}]

NextQuarter ==
  FrameBegin(Quartering) \/ FrameKeys(Quartering) \/ FrameMouse(Quartering) \/ Ingest

SpecQuarter == Init /\ [][NextQuarter]_vars

(***************************************************************************)
(* SpecLive: two pictures dropped together while the key E reorders the    *)
(* collection, under fair scheduling.  The Go scheduler runs every         *)
(* runnable goroutine and sync.Mutex hands the lock to a waiter (weak      *)
(* fairness of each ingest step); ebiten calls Update once per tick (weak  *)
(* fairness of each step of the frame).                                    *)
(***************************************************************************)
Streaming ==
  [press |-> {<<0, 0>>},       \* empty canvas
   drag |-> {<<50, 41>>},
   resize |-> {<<50, 41>>},
   right |-> {<<0, 0>>},
   hover |-> {<<0, 0>>},
   keys |-> {"E"},
   batches |-> {<<PNG, PNG>>, <<NOTPNG, IOERR>>}]

NextLive ==
  FrameBegin(Streaming) \/ FrameKeys(Streaming) \/ FrameMouse(Streaming) \/ Ingest

Fairness ==
  /\ WF_vars(FrameBegin(Streaming))
  /\ WF_vars(FrameKeys(Streaming))
  /\ WF_vars(FrameMouse(Streaming))
  /\ \A t \in 1..MaxBatches :
       WF_vars(IngestSkip(t) \/ IngestFail(t) \/ IngestRecord(t)
                 \/ IngestLock(t) \/ IngestAppend(t))

SpecLive == Init /\ [][NextLive]_vars /\ Fairness

(***************************************************************************)
(* SpecTool: one visage, selected, deselected and deleted by its button    *)
(* and by the key D, the erase tool switched on and off, the slider moved  *)
(* once.                                                                   *)
(***************************************************************************)
Tooling ==
  [press |-> { <<50, 41>>,     \* inside the visage, on no handle
               <<20, 245>>,    \* the erase button
               <<20, 170>>,    \* the delete button
               <<0, 60>>,      \* on the slider: value 25
               <<0, 0>> },     \* empty canvas
   drag |-> {<<50, 41>>},
   resize |-> {<<50, 41>>},
   right |-> {<<0, 0>>},
   hover |-> {<<0, 0>>},
   keys |-> {"D"},
   batches |-> {<<PNG, NOTPNG>>, <<IOERR>>}]

NextTool ==
  FrameBegin(Tooling) \/ FrameKeys(Tooling) \/ FrameMouse(Tooling) \/ Ingest

SpecTool == Init /\ [][NextTool]_vars

(***************************************************************************)
(* SpecErase: one visage, selected, the erase tool switched on and off,    *)
(* the slider dragged to its ends and beyond, the brush put down inside,   *)
(* left and right of the visage; no hotkey.                                *)
(***************************************************************************)
Erasing ==
  [press |-> { <<50, 41>>,     \* inside the visage, on no handle: pixel (10, 1)
               <<20, 245>>,    \* the erase button
               <<0, 60>>,      \* on the slider: value 25
               <<-39, 60>>,    \* its left end and the tolerance: value -14
               <<139, 60>>,    \* its right end and the tolerance: value 164
               <<11, 41>>,     \* left of the visage: pixel (-29, 1)
               <<88, 41>> },   \* right of the visage: pixel (48, 1)
   drag |-> {<<50, 41>>},
   resize |-> {<<50, 41>>},
   right |-> {<<0, 0>>},
   hover |-> {<<0, 0>>},
   keys |-> {},
   batches |-> {<<PNG, NOTPNG>>, <<IOERR>>}]

NextErase ==
  FrameBegin(Erasing) \/ FrameKeys(Erasing) \/ FrameMouse(Erasing) \/ Ingest

SpecErase == Init /\ [][NextErase]_vars

(***************************************************************************)
(* Properties of the collection and the selection, checked under Spec     *)
(* (C1, C2, C5) and under SpecSelect (C3, C4).                             *)
(***************************************************************************)
\* C1: in every reachable state, when a visage is selected, selectedIndex is
\* an index of the collection: 0 <= selectedIndex < number of visages.
C1_SelectedIndexInRange ==
  g.selected => (0 <= g.selectedIndex /\ g.selectedIndex < Len(g.visages))

IsPrefix(s, t) == Len(s) <= Len(t) /\ SubSeq(t, 1, Len(s)) = s

\* Task t gets past a PNG in this step.
FinishesPng(t) ==
  /\ tasks[t].pc \in {"walk", "locked"}
  /\ Head(tasks[t].files)[1] = "png"
  /\ tasks'[t] = Walked(tasks[t])

\* C2: under every interleaving of ingest appends with the frame loop, the
\* visage ingest appends is never lost and overwrites nothing: a task gets
\* past a PNG only by its append, which leaves every visage of the collection
\* in place and the new one behind them.
C2_AppendNeverLost ==
  [][\A t \in DOMAIN tasks :
       FinishesPng(t) =>
         /\ tasks[t].pc = "locked"
         /\ IsPrefix(g.visages, g'.visages)
         /\ Len(g'.visages) = Len(g.visages) + 1
         /\ g'.visages[Len(g'.visages)].image = tasks[t].image]_vars

\* A press nothing has claimed yet: no drag, resize or click is under way.
FreshPress == pc = "mouse" /\ ~g.panicked /\ ~g.dragging /\ ~g.resizing /\ ~g.clicking

\* After the handle, button and erase checks, none has claimed the press.
Unclaimed(G) == ~G.panicked /\ ~G.resizing /\ ~G.clicking /\ ~G.erasing

\* C3: a pointer-down at p that no handle, button or erase claims selects the
\* visage of largest index whose rectangle contains p and starts dragging it
\* with the grab offset; when no rectangle contains p the selection is cleared.
C3_HitTestFrontMost ==
  FreshPress =>
    \A p \in Selecting.press :
      LET G == handleMouseActions(g, TRUE, FALSE, p[1], p[2])
          under == {i \in 1..Len(g.visages) :
                      /\ g.visages[i].x <= p[1] /\ p[1] <= g.visages[i].x + g.visages[i].w
                      /\ g.visages[i].y <= p[2] /\ p[2] <= g.visages[i].y + g.visages[i].h}
      IN Unclaimed(G) =>
           /\ G.visages = g.visages
           /\ IF under = {}
              THEN ~G.selected /\ ~G.dragging
              ELSE /\ G.selected /\ G.dragging
                   /\ G.selectedIndex + 1 \in under
                   /\ \A i \in under : i <= G.selectedIndex + 1
                   /\ G.dragOffsetX = p[1] - g.visages[G.selectedIndex + 1].x
                   /\ G.dragOffsetY = p[2] - g.visages[G.selectedIndex + 1].y

\* A drag has begun on a visage that lies over another one under the pointer.
C3_Witness ==
  /\ g.dragging /\ g.selected /\ pc = "errors"
  /\ InRange(g, g.selectedIndex)
  /\ \E j \in 0..(g.selectedIndex - 1) :
       Contains(At(g, j), At(g, g.selectedIndex).x + g.dragOffsetX,
                          At(g, g.selectedIndex).y + g.dragOffsetY)

\* G0's collection without its element of (Go) index i, the others in order.
RemovedAt(G0, G, i) ==
  /\ Len(G.visages) = Len(G0.visages) - 1
  /\ \A j \in 1..Len(G.visages) :
       G.visages[j] = G0.visages[IF j <= i THEN j ELSE j + 1]

\* The middle of the selected visage's button b.
ButtonCentre(G, b) ==
  <<At(G, G.selectedIndex).x + buttonXOffset + 15,
    At(G, G.selectedIndex).y + buttonYOffset(b) + 15>>

\* The states the delete action leaves, reached by the hotkey D and by a click
\* on the selected visage's delete button, as pairs <<before, after>>.
DeleteRuns ==
  (IF pc = "keys" /\ ~g.panicked /\ InRange(g, g.selectedIndex)
   THEN {<<g, keyActions(g, <<"D">>)>>} ELSE {})
  \cup
  (IF FreshPress /\ g.selected /\ InRange(g, g.selectedIndex)
   THEN {<<g, handleMouseActions(g, TRUE, FALSE, ButtonCentre(g, btnDelete)[1],
                                               ButtonCentre(g, btnDelete)[2])>>}
   ELSE {})

CopyRuns ==
  (IF pc = "keys" /\ ~g.panicked
   THEN {<<g, keyActions(g, <<"C">>)>>} ELSE {})
  \cup
  (IF FreshPress /\ g.selected /\ InRange(g, g.selectedIndex)
   THEN {<<g, handleMouseActions(g, TRUE, FALSE, ButtonCentre(g, btnCopy)[1],
                                               ButtonCentre(g, btnCopy)[2])>>}
   ELSE {})

\* C5: wherever the duplicate action can be invoked, by button or by hotkey, it
\* appends one visage at (x + 30, y + 30) of the selected visage at (x, y), with
\* the same surface content, and the new visage is then the selection.
C5_DuplicateBecomesSelection ==
  \A r \in CopyRuns :
    LET G0 == r[1]
        G == r[2]
        n == Len(G0.visages)
    IN /\ ~G.panicked
       /\ Len(G.visages) = n + 1
       /\ SubSeq(G.visages, 1, n) = G0.visages
       /\ G.visages[n + 1].x = At(G0, G0.selectedIndex).x + 30
       /\ G.visages[n + 1].y = At(G0, G0.selectedIndex).y + 30
       /\ G.images[G.visages[n + 1].image] = G0.images[At(G0, G0.selectedIndex).image]
       /\ G.selected /\ G.selectedIndex = n

(***************************************************************************)
(* Properties of resizing (under SpecResize) and rotating (SpecRotate).    *)
(***************************************************************************)
\* A resize is under way on the selected visage.
MidResize ==
  /\ pc = "mouse" /\ ~g.panicked
  /\ g.resizing /\ ~g.dragging
  /\ InRange(g, g.selectedIndex)

\* The frame that resizes with the pointer at p, then the frame of the release.
ResizeThenRelease(p) ==
  handleMouseActions(handleMouseActions(g, TRUE, FALSE, p[1], p[2]),
                     FALSE, FALSE, p[1], p[2])

\* The image mirrored top to bottom.
MirroredVertically(src) ==
  [Dx |-> src.Dx, Dy |-> src.Dy,
   pix |-> [q \in Pixels(src.Dx, src.Dy) |-> src.pix[<<q[1], src.Dy - 1 - q[2]>>]]]

\* The image mirrored left to right.
MirroredHorizontally(src) ==
  [Dx |-> src.Dx, Dy |-> src.Dy,
   pix |-> [q \in Pixels(src.Dx, src.Dy) |-> src.pix[<<src.Dx - 1 - q[1], q[2]>>]]]

C10_RotateSwapsDisplayedSize ==
  (pc = "keys" /\ ~g.panicked /\ g.selected /\ InRange(g, g.selectedIndex)) =>
    LET v == At(g, g.selectedIndex)
        G == keyActions(g, <<"R">>)
        u == At(G, g.selectedIndex)
    IN /\ ~G.panicked
       /\ G.images[u.image].Dx = g.images[v.image].Dy
       /\ G.images[u.image].Dy = g.images[v.image].Dx
       /\ u.w = v.h /\ u.h = v.w

(***************************************************************************)
(* Properties of the erase tool and its slider, checked under SpecErase.   *)
(***************************************************************************)
\* A press on a selected visage that no drag or resize has taken.
ErasePress ==
  /\ pc = "mouse" /\ ~g.panicked
  /\ g.selected /\ InRange(g, g.selectedIndex)
  /\ ~g.dragging /\ ~g.resizing

SquaredDistance(q, c) == (q[1] - c[1]) * (q[1] - c[1]) + (q[2] - c[2]) * (q[2] - c[2])

\* C7: erasing at the mapped pixel (px, py) with brush radius r makes
\* transparent exactly the pixels (ex, ey) of the surface with
\* (ex - px)^2 + (ey - py)^2 <= r^2, writes nothing outside the surface's
\* bounds, and leaves every other pixel of the surface as it was.
C7_EraseExactDisc ==
  ErasePress =>
    \A p \in Erasing.press :
      LET G == handleMouseActions(g, TRUE, FALSE, p[1], p[2])
          v == At(g, g.selectedIndex)
          c == getPixelCoordinates(g, v, p[1], p[2])
          old == g.images[v.image]
          new == G.images[v.image]
      IN (~G.panicked /\ G.erasing /\ G.visages = g.visages) =>
           /\ new.Dx = old.Dx /\ new.Dy = old.Dy
           /\ DOMAIN new.pix = Pixels(old.Dx, old.Dy)
           /\ \A q \in Pixels(old.Dx, old.Dy) :
                new.pix[q] = IF SquaredDistance(q, c) <= G.sliderValue * G.sliderValue
                             THEN 0 ELSE old.pix[q]

\* The brush has gone down with the tool on and has erased a part of the
\* surface, not all of it.
C7_Witness ==
  /\ pc = "errors" /\ g.erasing /\ g.selected
  /\ Len(g.visages) = 1
  /\ \E q1, q2 \in DOMAIN g.images[g.visages[1].image].pix :
       /\ g.images[g.visages[1].image].pix[q1] = 0
       /\ g.images[g.visages[1].image].pix[q2] # 0

\* Where the brush goes down in two successive frames of one press.
BrushPoints == {<<50, 41>>, <<11, 41>>, <<88, 41>>}

\* q lies within r of the segment from a to b.
WithinOfSegment(q, a, b, r) ==
  LET d == <<b[1] - a[1], b[2] - a[2]>>
      t == (q[1] - a[1]) * d[1] + (q[2] - a[2]) * d[2]
      dd == d[1] * d[1] + d[2] * d[2]
      cross == (q[1] - a[1]) * d[2] - (q[2] - a[2]) * d[1]
  IN IF t <= 0 THEN SquaredDistance(q, a) <= r * r
     ELSE IF t >= dd THEN SquaredDistance(q, b) <= r * r
     ELSE cross * cross <= r * r * dd

\* C8: after erasing in two consecutive frames of one press, at the mapped
\* pixels p0 then p1, no pixel of the surface within r of the segment p0-p1 is
\* left un-erased: the thick segment is covered, not only its two end discs.
C8_EraseCoversSegment ==
  (ErasePress /\ g.erasing) =>
    \A p0, p1 \in BrushPoints :
      LET G1 == handleMouseActions(g, TRUE, FALSE, p0[1], p0[2])
          G2 == handleMouseActions(G1, TRUE, FALSE, p1[1], p1[2])
          v == At(g, g.selectedIndex)
          m0 == getPixelCoordinates(g, v, p0[1], p0[2])
          m1 == getPixelCoordinates(g, v, p1[1], p1[2])
          img == g.images[v.image]
      IN (~G2.panicked /\ G1.erasing /\ G2.erasing /\ G2.visages = g.visages
          /\ G2.sliderValue = g.sliderValue) =>
           \A q \in Pixels(img.Dx, img.Dy) :
             WithinOfSegment(q, m0, m1, g.sliderValue) => G2.images[v.image].pix[q] = 0

\* C9: in every reachable state the brush radius sliderValue lies in
\* [5, 145], wherever the pointer drags the slider.
C9_SliderValueInRange ==
  g.sliderValue >= 5 /\ g.sliderValue <= 145

\* The slider has been dragged past its right end, and past its left end.
C9_Witness ==
  /\ pc = "errors" /\ g.sliderDragging /\ g.erasing
  /\ g.sliderValue \in {5, 145}

(***************************************************************************)
(* Properties of the rotation, checked under SpecTurn.                     *)
(***************************************************************************)
\* The state after the rotate action has run n times on the visage at
\* selectedIndex, one press of the key or of the button each.
RECURSIVE RotatedTimes(_, _)
RotatedTimes(G, n) ==
  IF n = 0 THEN G
  ELSE RotatedTimes(buttonAction(G, btnRotate, G.selectedIndex), n - 1)

Surface(G, i) == G.images[At(G, i).image]

\* C11: four rotations of a visage leave its surface with the bounds it had
\* and with every pixel where it was.
C11_FourRotationsRestoreSurface ==
  (pc = "keys" /\ InRange(g, g.selectedIndex)) =>
    LET G == RotatedTimes(g, 4) IN
      /\ ~G.panicked
      /\ G.selectedIndex = g.selectedIndex
      /\ Surface(G, G.selectedIndex).Dx = Surface(g, g.selectedIndex).Dx
      /\ Surface(G, G.selectedIndex).Dy = Surface(g, g.selectedIndex).Dy
      /\ Surface(G, G.selectedIndex).pix = Surface(g, g.selectedIndex).pix

\* Three quarter turns done on a dropped picture that is not square, the fourth
\* about to be made.
C11_Witness ==
  /\ pc = "keys" /\ InRange(g, g.selectedIndex)
  /\ Surface(g, g.selectedIndex) =
       RotatedImage(RotatedImage(RotatedImage(DecodedImage(PNG[2], PNG[3]))))
  /\ Surface(g, g.selectedIndex) # RotatedImage(DecodedImage(PNG[2], PNG[3]))
  /\ Surface(RotatedTimes(g, 1), g.selectedIndex) = DecodedImage(PNG[2], PNG[3])

(***************************************************************************)
(* Properties of the gestures: drag, resize, click, pan.                   *)
(***************************************************************************)
\* Where the pointer is taken to while a visage is dragged.
DragPoints == {<<50, 41>>, <<70, 36>>, <<45, 60>>}

\* The visage a drag that began at pointer <<x0, y0>> on visage v0 must show
\* with the pointer at p.
Carried(v0, x0, y0, p) == [v0 EXCEPT !.x = v0.x + (p[1] - x0), !.y = v0.y + (p[2] - y0)]

\* C12: a press that starts a drag records the grab offset; after every
\* further frame with the button held the visage lies at pointer minus that
\* offset, that is, shifted by the pointer's displacement, with w and h as
\* they were; the release leaves it there and ends the drag.  Checked under
\* SpecSelect.
C12_DragFollowsPointer ==
  FreshPress =>
    \A p0 \in Selecting.press :
      LET G1 == handleMouseActions(g, TRUE, FALSE, p0[1], p0[2]) IN
      (~G1.panicked /\ G1.dragging) =>
        LET i == G1.selectedIndex
            v0 == At(g, i)
        IN /\ G1.dragOffsetX = p0[1] - v0.x /\ G1.dragOffsetY = p0[2] - v0.y
           /\ At(G1, i) = v0
           /\ \A p1, p2 \in DragPoints :
                LET G2 == handleMouseActions(G1, TRUE, FALSE, p1[1], p1[2])
                    G3 == handleMouseActions(G2, TRUE, FALSE, p2[1], p2[2])
                    G4 == handleMouseActions(G3, FALSE, FALSE, p2[1], p2[2])
                IN /\ ~G2.panicked /\ ~G3.panicked /\ ~G4.panicked
                   /\ At(G2, i).x = p1[1] - G1.dragOffsetX
                   /\ At(G2, i).y = p1[2] - G1.dragOffsetY
                   /\ At(G2, i) = Carried(v0, p0[1], p0[2], p1)
                   /\ At(G3, i) = Carried(v0, p0[1], p0[2], p2)
                   /\ G2.dragging /\ G3.dragging /\ ~G4.dragging
                   /\ G4.visages = G3.visages

\* A visage being dragged, carried off the place it was dropped at.
C12_Witness ==
  /\ pc = "errors" /\ g.dragging /\ g.selected /\ InRange(g, g.selectedIndex)
  /\ At(g, g.selectedIndex).y = ingestY + 1
  /\ At(g, g.selectedIndex).x = ingestX
  /\ g.dragOffsetX = 10
  /\ At(g, g.selectedIndex).w = PNG[2] /\ At(g, g.selectedIndex).h = PNG[3]

\* A selected visage and a press that no gesture precedes.
SelectedPress == FreshPress /\ g.selected /\ InRange(g, g.selectedIndex)

\* Pointer positions about the lower left corner of visage v, where the
\* bottom-left handle and the column of buttons meet.
LowerLeft(v) == ((v.x - 10)..(v.x + 2)) \X ((v.y + v.h - 10)..(v.y + v.h + 10))

\* C13: a press inside a resize handle's square begins the resize with that
\* handle and invokes no button action in that frame: no click is recorded
\* and the collection, the selection and the erase mode stay as they were.
C13_HandleBeforeButtons ==
  SelectedPress =>
    LET v == At(g, g.selectedIndex) IN
    \A p \in LowerLeft(v) :
      HandleAt(v, p[1], p[2]) # handleNone =>
        LET G == handleMouseActions(g, TRUE, FALSE, p[1], p[2]) IN
          /\ ~G.panicked
          /\ G.resizing /\ G.resizeHandle = HandleAt(v, p[1], p[2])
          /\ ~G.clicking
          /\ G.visages = g.visages /\ G.selectedIndex = g.selectedIndex
          /\ G.erasing = g.erasing

\* Two points of button b of visage v: its centre, and the point of its upper
\* edge that is nearest to the visage and on no resize handle.
ButtonPoints(v, b) ==
  { <<v.x + buttonXOffset + GoDiv(buttonSize, 2), v.y + buttonYOffset(b) + GoDiv(buttonSize, 2)>>,
    <<v.x - handleArea - 1, v.y + buttonYOffset(b)>> }

\* The pixels of every image a visage of G shows.
Shown(G) == [i \in DOMAIN G.visages |-> G.images[G.visages[i].image].pix]

\* C14: a press on a toolbar button (and on no handle) invokes the button's
\* action once and does nothing else; while the press lasts, with the pointer
\* where it was, no visage is moved or reselected, no pixel is erased and no
\* action runs again.  Checked under SpecErase.
C14_ClickClaimsThePress ==
  SelectedPress =>
    LET v == At(g, g.selectedIndex) IN
    \A b \in Buttons : \A p \in ButtonPoints(v, b) :
      (OnButton(v, b, p[1], p[2]) /\ HandleAt(v, p[1], p[2]) = handleNone) =>
        LET A == buttonAction(g, b, g.selectedIndex)
            G1 == handleMouseActions(g, TRUE, FALSE, p[1], p[2])
            G2 == handleMouseActions(G1, TRUE, FALSE, p[1], p[2])
        IN ~A.panicked =>
             /\ ~G1.panicked /\ ~G2.panicked
             /\ G1.clicking /\ ~G1.dragging
             /\ G1.visages = A.visages /\ Shown(G1) = Shown(A)
             /\ G1.selected = A.selected /\ G1.selectedIndex = A.selectedIndex
             /\ G1.erasing = A.erasing
             /\ G2.clicking /\ ~G2.dragging
             /\ G2.visages = G1.visages /\ Shown(G2) = Shown(G1)
             /\ G2.selected = G1.selected /\ G2.selectedIndex = G1.selectedIndex
             /\ G2.erasing = G1.erasing

\* C15: a frame in which the primary button is not pressed, with the
\* secondary button pressed or not, ends every primary-button gesture:
\* after it dragging, resizing, clicking and sliderDragging are false and
\* resizeHandle is none.  Checked under SpecSelect.
C15_ReleaseEndsGestures ==
  (pc = "mouse" /\ ~g.panicked) =>
    \A right \in BOOLEAN :
      \A p \in PointerChoices(Selecting, g, FALSE, right) :
        LET G == handleCursor(handleMouseActions(g, FALSE, right, p[1], p[2]), p[1], p[2])
        IN ~G.panicked =>
             /\ ~G.dragging /\ ~G.resizing /\ ~G.clicking /\ ~G.sliderDragging
             /\ G.resizeHandle = handleNone

\* How many of the given flags are up.
Count(flags) == Cardinality({i \in DOMAIN flags : flags[i]})

\* C16: in every reachable state at most one of dragging, resizing, panning
\* and clicking is true.  Checked under SpecSelect.
C16_OneGestureAtATime ==
  Count(<<g.dragging, g.resizing, g.panning, g.clicking>>) <= 1

\* A drag or a resize under way on a selected visage, the keys about to be read.
MidGesture ==
  /\ pc = "keys" /\ ~g.panicked
  /\ g.selected /\ InRange(g, g.selectedIndex)
  /\ (g.dragging \/ g.resizing)

\* What one more frame of the gesture of G makes of visage v, the pointer at p.
Updated(G, v, p) ==
  IF G.dragging THEN [v EXCEPT !.x = p[1] - G.dragOffsetX, !.y = p[2] - G.dragOffsetY]
  ELSE Clamped(Resized(v, G.resizeHandle, p[1], p[2]))

\* The hotkey presses of one frame: none, or one key that was up.
KeyPresses == {<<>>} \cup {<<k>> : k \in {k \in {"D", "C", "E"} : ~pressedKeys[k]}}

\* C17: while a drag or a resize is under way, a frame with the button held
\* updates the visage the gesture was on and leaves every other visage as it
\* was, whatever hotkey is pressed in that frame.  Checked under SpecSelect.
C17_GestureKeepsItsVisage ==
  MidGesture =>
    LET i == g.selectedIndex
        v == At(g, i)
    IN \A order \in KeyPresses : \A p \in DragPoints :
         LET G1 == keyActions(g, order)
             G2 == handleMouseActions(G1, TRUE, FALSE, p[1], p[2])
         IN /\ ~G2.panicked
            /\ \E n \in DOMAIN G2.visages : G2.visages[n] = Updated(g, v, p)
            /\ \A j \in DOMAIN g.visages :
                 j # i + 1 => \E n \in DOMAIN G2.visages : G2.visages[n] = g.visages[j]

\* The collection with every visage shifted by <<dx, dy>>: the same visages in
\* the same order, their sizes and images as they were.
Translated(vs, dx, dy) ==
  [i \in DOMAIN vs |-> [vs[i] EXCEPT !.x = vs[i].x + dx, !.y = vs[i].y + dy]]

\* A frame with the secondary button held alone, the pointer at p.
PanFrame(G, p) == handleMouseActions(G, FALSE, TRUE, p[1], p[2])

\* What a pan frame may change: the positions and the recorded pointer.
PanOnly(G, H, p) ==
  H = [G EXCEPT !.visages = H.visages, !.panning = TRUE,
                !.panStartX = p[1], !.panStartY = p[2]]

\* C18: after a frame with both buttons up, the first frame with the
\* secondary button held alone records the pointer and moves nothing; each
\* later such frame shifts every visage by the pointer's displacement since
\* the previous such frame, also when a press of the primary button came in
\* between; sizes, images and order stay; frames with the primary button
\* pressed leave the recorded pointer alone and frames with no button pressed
\* move nothing.  Checked under SpecPan.
C18_PanTranslatesAll ==
  (pc = "mouse" /\ ~g.panicked) =>
    /\ \A h \in Panning.hover : \A p1, p2, p3 \in Panning.right :
         LET G0 == handleMouseActions(g, FALSE, FALSE, h[1], h[2])
             G1 == PanFrame(G0, p1)
             G2 == PanFrame(G1, p2)
             L == handleMouseActions(G2, TRUE, TRUE, h[1], h[2])
             G3 == PanFrame(L, p3)
         IN /\ G0.visages = g.visages /\ ~G0.panning
            /\ G1.visages = G0.visages /\ PanOnly(G0, G1, p1)
            /\ G2.visages = Translated(G1.visages, p2[1] - p1[1], p2[2] - p1[2])
            /\ PanOnly(G1, G2, p2)
            /\ ~L.panicked =>
                 /\ G3.visages = Translated(L.visages, p3[1] - p2[1], p3[2] - p2[2])
                 /\ PanOnly(L, G3, p3)
    /\ \A p \in Panning.right :
         LET G == PanFrame(g, p)
         IN /\ PanOnly(g, G, p)
            /\ G.visages = IF g.panning
                            THEN Translated(g.visages, p[1] - g.panStartX, p[2] - g.panStartY)
                            ELSE g.visages
    /\ \A right \in BOOLEAN : \A p \in PointerChoices(Panning, g, TRUE, right) :
         LET G == handleMouseActions(g, TRUE, right, p[1], p[2])
         IN /\ G.panning = g.panning
            /\ G.panStartX = g.panStartX /\ G.panStartY = g.panStartY

\* Two visages panned together off the place they were dropped at.
C18_Witness ==
  /\ pc = "errors" /\ g.panning
  /\ g.panStartX = 30 /\ g.panStartY = 20
  /\ Len(g.visages) = 2
  /\ \A i \in DOMAIN g.visages :
       /\ g.visages[i].x = ingestX + 30 /\ g.visages[i].y = ingestY + 20
       /\ g.visages[i].w = PNG[2] /\ g.visages[i].h = PNG[3]

(***************************************************************************)
(* Properties of the error slot, checked under SpecErrors.                 *)
(***************************************************************************)
\* C19: once an error is recorded in the slot, the next Update returns it
\* and the loop stops: no Update that begins with the slot taken goes on to
\* its handlers.
C19_UpdateReturnsRecordedError ==
  [][(pc = "errors" /\ err # 0) => pc' = "errors"]_vars

\* C20: the error slot is written at most once: once it holds an error, no
\* step of any ingest task and no step of the loop changes it.
C20_ErrorSlotWrittenOnce ==
  [][err # 0 => err' = err]_vars

\* The walks of two batches have failed, both have been at the slot, and it
\* holds the error of one of them.
C20_Witness ==
  /\ err \in DOMAIN tasks
  /\ \E t, u \in DOMAIN tasks : t # u /\ tasks[t].pc = "done" /\ tasks[u].pc = "done"

(***************************************************************************)
(* Properties of the ingest, checked under SpecDecode.                     *)
(***************************************************************************)
\* Task t is at a file that does not decode.
AtUndecodable(t) == tasks[t].pc = "walk" /\ Head(tasks[t].files)[1] = "notpng"

\* C21: the step a task takes at a file that fails to decode creates no
\* visage and changes nothing of the Game, leaves the error slot alone, and
\* takes the walk on to the files that follow it in the batch; the walk ends
\* only when none follows.
C21_DecodeFailureSkipsFile ==
  [][\A t \in DOMAIN tasks :
       (AtUndecodable(t) /\ tasks'[t] # tasks[t]) =>
         /\ g' = g
         /\ err' = err
         /\ tasks'[t].files = (IF Len(tasks[t].files) > 1 THEN Tail(tasks[t].files) ELSE <<>>)
         /\ tasks'[t].pc = (IF Len(tasks[t].files) > 1 THEN "walk" ELSE "done")]_vars

\* A batch walked to its end: the PNG before the file that fails to decode
\* and the PNG after it are both in the collection, the error slot is empty.
C21_Witness ==
  /\ \A t \in DOMAIN tasks : tasks[t].pc = "done"
  /\ err = 0
  /\ Len(g.visages) = 2

(***************************************************************************)
(* Properties of the hotkeys.                                              *)
(***************************************************************************)
\* C22: with no visage selected, the collection empty or not, a press of
\* the key of the reorder, delete or duplicate action does nothing: the
\* collection, selected, selectedIndex and the erase flag stay as they were
\* and the program does not panic.  Checked under Spec.
C22_UnselectedHotkeysDoNothing ==
  (pc = "keys" /\ ~g.panicked /\ ~g.selected) =>
    \A k \in {"E", "D", "C"} :
      ~pressedKeys[k] =>
        LET G == keyActions(g, <<k>>) IN
          /\ ~G.panicked
          /\ G.visages = g.visages
          /\ G.selected = g.selected /\ G.selectedIndex = g.selectedIndex
          /\ G.erasing = g.erasing

\* C23 as stated: each of the six toolbar actions has a key whose press
\* invokes it.
C23_EveryActionHasAKey ==
  (pc = "keys" /\ InRange(g, g.selectedIndex)) =>
    \A b \in Buttons : \E k \in Keys :
      keyActions(g, <<k>>) = buttonAction(g, b, g.selectedIndex)

\* The state handleKeybinds leaves when the keys of order went down.
AfterKeys(order) == Collect([keyActions(g, order) EXCEPT !.wroteHeader = FALSE], tasks')

\* C23: the keys E, F, R, D and C are bound to the first five toolbar
\* actions.  A frame invokes the action of a bound key exactly when the key
\* is down in it and was up when the frame before read the keys, once; a
\* frame in which no key went down, whatever keys are held, invokes nothing.
\* Checked under SpecKeys.
C23_BoundKeysEdgeTriggered ==
  [][(pc = "keys" /\ pc' = "mouse") =>
       LET edges == {k \in Keys : pressedKeys'[k] /\ ~pressedKeys[k]} IN
         /\ \E order \in Orders(edges) : g' = AfterKeys(order)
         /\ edges = {} => g' = g
         /\ \A k \in Keys :
              edges = {k} => g' = Collect([buttonAction(g, keyButton(k), g.selectedIndex)
                                             EXCEPT !.wroteHeader = FALSE], tasks')]_vars

\* The key R was down when the last frame read the keys, the picture has
\* been turned once, and the keys are about to be read again.
C23_Witness ==
  /\ pc = "keys" /\ pressedKeys["R"]
  /\ InRange(g, g.selectedIndex)
  /\ Len(g.visages) = 1
  /\ Surface(g, g.selectedIndex) = RotatedImage(DecodedImage(PNG[2], PNG[3]))

(***************************************************************************)
(* Properties of the erase flag, checked under SpecTool.                   *)
(***************************************************************************)
\* What the erase flag, the selection, the brush and the pictures are.
ToolAndScene(G) ==
  <<G.erasing, G.selected, G.selectedIndex, G.sliderValue, G.visages, Shown(G)>>

\* The step is a frame's mouse step with a press on button b of the selected
\* visage that no gesture precedes.
Clicks(b) ==
  /\ pc = "mouse" /\ g.selected /\ InRange(g, g.selectedIndex)
  /\ ~g.dragging /\ ~g.resizing /\ ~g.clicking /\ g'.clicking
  /\ \E p \in Tooling.press :
       /\ OnButton(At(g, g.selectedIndex), b, p[1], p[2])
       /\ g' = Collect([handleCursor(handleMouseActions(g, TRUE, FALSE, p[1], p[2]), p[1], p[2])
                          EXCEPT !.wroteHeader = FALSE], tasks')

\* C24: a frame with no button pressed leaves the erase flag, the selection,
\* the brush radius and every visage as they were; and the erase flag
\* changes in no step but a click on the erase button, which flips it, and a
\* delete, which clears it.
C24_EraseFlagSticky ==
  [][/\ (pc = "mouse" /\ ~g.panicked) =>
          \A p \in Tooling.hover :
            ToolAndScene(handleCursor(handleMouseActions(g, FALSE, FALSE, p[1], p[2]),
                                      p[1], p[2])) = ToolAndScene(g)
     /\ g'.erasing # g.erasing =>
          \/ Clicks(btnErase)
          \/ Clicks(btnDelete) /\ ~g'.erasing
          \/ pc = "keys" /\ pressedKeys'["D"] /\ ~pressedKeys["D"] /\ ~g'.erasing]_vars

\* The erase tool on after the press that switched it on has been released.
C24_Witness ==
  /\ pc = "errors" /\ g.erasing /\ g.selected
  /\ ~g.clicking /\ ~g.dragging /\ ~g.resizing /\ ~g.sliderDragging
  /\ g.sliderValue # sliderInitial

(***************************************************************************)
(* Properties of the reorder action, checked under SpecOrder.              *)
(***************************************************************************)
\* The list vs without its element at (Go) index i.
Without(vs, i) == [j \in 1..(Len(vs) - 1) |-> vs[IF j <= i THEN j ELSE j + 1]]

\* C25: the reorder action on the selected index i of N visages puts the
\* selected visage at index 0 when i = N-1 and at index N-1 otherwise; the
\* other visages keep their relative order, none is added, lost or doubled,
\* and selectedIndex is the moved visage's new index.
C25_ReorderMovesSelection ==
  (~g.panicked /\ g.selected /\ InRange(g, g.selectedIndex)) =>
    LET i == g.selectedIndex
        N == Len(g.visages)
        G == buttonAction(g, btnMove, i)
        to == IF i = N - 1 THEN 0 ELSE N - 1
    IN /\ ~G.panicked
       /\ Len(G.visages) = N
       /\ G.selectedIndex = to
       /\ At(G, to) = At(g, i)
       /\ Without(G.visages, to) = Without(g.visages, i)
       /\ G.selected

\* Three visages, the middle one selected and then moved: it is the front
\* one now, the other two in the order they had.
C25_Witness ==
  /\ Len(g.visages) = 3 /\ g.selected /\ g.selectedIndex = 2
  /\ <<g.visages[1].image, g.visages[2].image, g.visages[3].image>> = <<1, 3, 2>>

(***************************************************************************)
(* Properties of the resize arithmetic, checked under SpecResize.          *)
(***************************************************************************)
\* A point inside each handle of v and inside no other handle and no button.
HandlePoints(v) ==
  { <<v.x - handleArea, v.y - handleArea>>,
    <<v.x + v.w + handleArea, v.y - handleArea>>,
    <<v.x - 5, v.y + v.h + handleArea>>,
    <<v.x + v.w + handleArea, v.y + v.h + handleArea>> }

\* Where the pointer is taken to while a handle is held: up and left of the
\* visage dropped at the origin, up and right, down and left, down and right.
ResizePoints == {<<35, 30>>, <<75, 30>>, <<30, 50>>, <<70, 60>>}

\* The corner of v a handle sits on, and the handle diagonally opposite.
Corner(v, hd) ==
  CASE hd = handleTopLeft -> <<v.x, v.y>>
    [] hd = handleTopRight -> <<v.x + v.w, v.y>>
    [] hd = handleBottomLeft -> <<v.x, v.y + v.h>>
    [] hd = handleBottomRight -> <<v.x + v.w, v.y + v.h>>

Opposite(hd) ==
  CASE hd = handleTopLeft -> handleBottomRight
    [] hd = handleTopRight -> handleBottomLeft
    [] hd = handleBottomLeft -> handleTopRight
    [] hd = handleBottomRight -> handleTopLeft

\* The rectangle with the corner of handle hd at p and the opposite corner
\* where v has it; its w or h is negative when p lies beyond that corner.
Spanned(v, hd, p) ==
  LET far == Corner(v, Opposite(hd))
      left == IF hd \in {handleTopLeft, handleBottomLeft} THEN p[1] ELSE far[1]
      right == IF hd \in {handleTopLeft, handleBottomLeft} THEN far[1] ELSE p[1]
      top == IF hd \in {handleTopLeft, handleTopRight} THEN p[2] ELSE far[2]
      bottom == IF hd \in {handleTopLeft, handleTopRight} THEN far[2] ELSE p[2]
  IN [v EXCEPT !.x = left, !.y = top, !.w = right - left, !.h = bottom - top]

PositiveSizes(G) == \A i \in DOMAIN G.visages : G.visages[i].w > 0 /\ G.visages[i].h > 0

\* C27: whenever no resize is under way, every visage has w > 0 and h > 0:
\* after ingest, resize and release, and drag, and also after a flip, a
\* rotation, a duplication or a pan frame from there.
C27_SizesPositiveAtRest ==
  ~g.resizing =>
    /\ PositiveSizes(g)
    /\ InRange(g, g.selectedIndex) =>
         \A b \in {btnFlip, btnRotate, btnCopy, btnMove} :
           PositiveSizes(buttonAction(g, b, g.selectedIndex))
    /\ \A p \in ResizePoints : PositiveSizes(PanFrame(PanFrame(g, <<0, 0>>), p))

\* A visage at rest and deselected after its bottom-right handle was taken
\* to the left of its left edge and released.
C27_Witness ==
  /\ pc = "errors" /\ ~g.resizing /\ ~g.selected /\ g.resizeHandle = handleNone
  /\ Len(g.visages) = 1
  /\ g.visages[1].w = 1 /\ g.visages[1].h = 50 - ingestY

(***************************************************************************)
(* Properties of the pixel mapping.                                        *)
(***************************************************************************)
\* The state of a press at <<x, y>> when handleLeftMouseButton comes to its
\* test of g.erasing: the handles and the buttons have been looked at.
BeforeErase(G, x, y) ==
  LET G1 == checkResizeHandles(G, x, y)
  IN IF ~G1.panicked /\ ~G1.clicking THEN checkButtonClicks(G1, x, y) ELSE G1

\* C28: whenever a frame comes to map the pointer to a pixel of the
\* selected visage's surface, that visage has w # 0 and h # 0, so that the
\* mapping never divides by zero.  Checked under SpecBrush.
C28_NoZeroDivisor ==
  (pc = "mouse" /\ ~g.panicked /\ g.selected /\ ~g.dragging /\ ~g.resizing
     /\ InRange(g, g.selectedIndex)) =>
    \A p \in Brushing.press :
      LET G == BeforeErase(g, p[1], p[2]) IN
        (~G.panicked /\ G.erasing /\ InRange(G, G.selectedIndex)) =>
          /\ At(G, G.selectedIndex).w # 0
          /\ At(G, G.selectedIndex).h # 0

\* The erase tool on and a press about to be mapped on a visage whose
\* bottom-right handle was taken onto its left edge: w is not 0 but 1.
C28_Witness ==
  /\ pc = "mouse" /\ g.selected /\ g.erasing /\ ~g.dragging /\ ~g.resizing /\ ~g.clicking
  /\ InRange(g, g.selectedIndex)
  /\ At(g, g.selectedIndex).w = 1 /\ At(g, g.selectedIndex).x = ingestX
  /\ At(g, g.selectedIndex).h = 50 - ingestY

\* Pointer positions left of, above, on and inside visage v.
MapPoints(v) == {v.x - 7, v.x - 1, v.x, v.x + 3} \X {v.y - 5, v.y - 1, v.y, v.y + 1}

\* C29: for every pointer position, left of or above the visage too, and
\* every displayed size, getPixelCoordinates gives the floors of
\* (screenX - x) * surface.width / w and (screenY - y) * surface.height / h.
\* Checked under SpecResize.
C29_PixelMappingIsFloor ==
  (~g.panicked /\ InRange(g, g.selectedIndex)) =>
    LET v == At(g, g.selectedIndex)
        img == g.images[v.image]
    IN \A p \in MapPoints(v) :
         getPixelCoordinates(g, v, p[1], p[2]) =
           << ((p[1] - v.x) * img.Dx) \div v.w, ((p[2] - v.y) * img.Dy) \div v.h >>

\* C30: with the erase tool on, a press inside a resize handle's square
\* starts the resize and erases no pixel in that frame.  Checked under
\* SpecErase.
C30_HandleBeforeErase ==
  (SelectedPress /\ g.erasing) =>
    LET v == At(g, g.selectedIndex) IN
    \A q \in HandlePoints(v) :
      LET G == handleMouseActions(g, TRUE, FALSE, q[1], q[2]) IN
        /\ ~G.panicked
        /\ G.resizing /\ G.resizeHandle = HandleAt(v, q[1], q[2])
        /\ Shown(G) = Shown(g)

(***************************************************************************)
(* Properties of the erase step, checked under SpecErase.                  *)
(***************************************************************************)
\* C31: with the erase tool on, a primary-held frame whose pointer is inside
\* the slider's hit band sets the brush radius from the horizontal offset
\* (clamped to [5, 145]) and erases no pixel of the visage in that frame.
C31_SliderInsteadOfErase ==
  (ErasePress /\ g.erasing) =>
    LET v == At(g, g.selectedIndex) IN
    \A p \in Erasing.press :
      (/\ InSliderBand(v, p[1], p[2])
       /\ HandleAt(v, p[1], p[2]) = handleNone
       /\ \A b \in Buttons : ~OnButton(v, b, p[1], p[2])) =>
        LET G == handleMouseActions(g, TRUE, FALSE, p[1], p[2])
            value == p[1] - (v.x + GoDiv(v.w, 2) - GoDiv(sliderWidth, 2))
        IN /\ ~G.panicked /\ G.sliderDragging
           /\ G.sliderValue = IF value < sliderMin THEN sliderMin
                              ELSE IF value > sliderMax THEN sliderMax ELSE value
           /\ Shown(G) = Shown(g)

\* Pointer positions far from visage v: sixty and more pixels outside its
\* rectangle, above the slider and right of the buttons.
FarPoints(v) == {<<v.x + v.w + 60, v.y - 60>>, <<v.x + GoDiv(v.w, 2), v.y - 80>>}

\* C32: with the erase tool on, a pointer-down far outside the selected
\* visage's rectangle, on no handle, button or slider, turns the erase tool
\* off.
C32_FarPressDisablesErase ==
  (SelectedPress /\ g.erasing) =>
    LET v == At(g, g.selectedIndex) IN
    \A p \in FarPoints(v) :
      (/\ ~InSliderBand(v, p[1], p[2])
       /\ HandleAt(v, p[1], p[2]) = handleNone
       /\ \A b \in Buttons : ~OnButton(v, b, p[1], p[2])) =>
        ~handleMouseActions(g, TRUE, FALSE, p[1], p[2]).erasing

\* The collection and the selection of G.
Selection(G) == <<G.visages, Shown(G), G.selected, G.selectedIndex>>

\* C33: while the erase tool is on the duplicate action is blocked: invoked
\* by its toolbar button or by its hotkey C, it leaves the collection and the
\* selection as they were.
C33_EraseBlocksDuplicate ==
  (/\ ~g.panicked /\ g.erasing /\ g.selected /\ InRange(g, g.selectedIndex)
   /\ ~g.dragging /\ ~g.resizing /\ ~g.clicking) =>
    LET v == At(g, g.selectedIndex) IN
      /\ pc = "keys" => Selection(keyActions(g, <<"C">>)) = Selection(g)
      /\ pc = "mouse" =>
           \A p \in ButtonPoints(v, btnCopy) :
             HandleAt(v, p[1], p[2]) = handleNone =>
               Selection(handleMouseActions(g, TRUE, FALSE, p[1], p[2])) = Selection(g)

(***************************************************************************)
(* Properties of the rotate action, checked under SpecQuarter.             *)
(***************************************************************************)
\* G is G0 but for the visage at index i, which keeps its x and y.
OnlyTurnedAt(G0, G, i) ==
  /\ Len(G.visages) = Len(G0.visages)
  /\ \A j \in DOMAIN G0.visages :
       j # i + 1 => /\ G.visages[j] = G0.visages[j]
                    /\ G.images[G.visages[j].image] = G0.images[G0.visages[j].image]
  /\ At(G, i).x = At(G0, i).x /\ At(G, i).y = At(G0, i).y
  /\ G.selected = G0.selected /\ G.selectedIndex = G0.selectedIndex

\* C34: after the rotate action, run by its key or by its button, the
\* visage's w and h are the width and height of the new, rotated surface, its
\* x and y are unchanged, and so are the order of the collection and the
\* selection.
C34_RotateTakesSurfaceSize ==
  (pc = "keys" /\ ~g.panicked /\ InRange(g, g.selectedIndex)) =>
    LET i == g.selectedIndex IN
    \A G \in {keyActions(g, <<"R">>), buttonAction(g, btnRotate, i)} :
      /\ ~G.panicked
      /\ OnlyTurnedAt(g, G, i)
      /\ Surface(G, i) = RotatedImage(Surface(g, i))
      /\ At(G, i).w = Surface(G, i).Dx /\ At(G, i).h = Surface(G, i).Dy

\* Two visages, the one hotkeys act on turned a quarter and the other as it
\* was dropped.
C34_Witness ==
  /\ pc = "keys" /\ Len(g.visages) = 2 /\ ~g.panicked
  /\ \E i \in 0..1 :
       /\ Surface(g, i) = RotatedImage(DecodedImage(PNG[2], PNG[3]))
       /\ At(g, i).w = PNG[3] /\ At(g, i).h = PNG[2]
       /\ Surface(g, 1 - i) = DecodedImage(PNG[2], PNG[3])
       /\ At(g, 1 - i).w = PNG[2] /\ At(g, 1 - i).h = PNG[3]

(***************************************************************************)
(* Progress of the ingest tasks and of the frame loop, checked under       *)
(* SpecLive.                                                               *)
(***************************************************************************)
\* Task t has n entries left to walk, the first of them a PNG.
AtPng(t, n) ==
  /\ tasks[t].pc \in {"walk", "locked"}
  /\ Len(tasks[t].files) = n /\ Head(tasks[t].files)[1] = "png"

\* Task t has walked past the entry it had when n were left.
PastEntry(t, n) == tasks[t].pc \in {"failed", "done"} \/ Len(tasks[t].files) < n

\* Every task that takes the mutex releases it.
MutexReleased == \A t \in 1..MaxBatches : (m = t) ~> (m # t)

\* The frame loop, which takes the mutex in handleErrors, gets it.
LoopNeverWaitsForever == (pc = "errors" /\ ~g.panicked) ~> (pc = "keys")

\* Every task that has decoded a PNG gets past it.
TasksNeverWaitForever ==
  \A t \in 1..MaxBatches : \A n \in 1..3 : AtPng(t, n) ~> PastEntry(t, n)

\* A task gets past a PNG by its append, which leaves the new visage at the
\* end of the list, front-most.
AppendedFrontMost ==
  [][\A t \in DOMAIN tasks :
       FinishesPng(t) =>
         /\ tasks[t].pc = "locked"
         /\ Len(g'.visages) > 0
         /\ g'.visages[Len(g'.visages)].image = tasks[t].image]_vars

\* C35: under fair scheduling every ingest task that takes the mutex
\* releases it, neither the frame loop nor a task waits for ever for the
\* mutex, and every decoded file is in the end appended to the collection as
\* its front-most element.
C35_IngestCompletes ==
  /\ MutexReleased
  /\ LoopNeverWaitsForever
  /\ TasksNeverWaitForever
  /\ AppendedFrontMost

(***************************************************************************)
(* Index safety, checked under Spec.                                       *)
(***************************************************************************)
\* C36: no operation indexes the visage list out of range: whenever a
\* hotkey action, a button action, a drag, resize or erase step or the cursor
\* computation reads visages[selectedIndex], 0 <= selectedIndex <
\* len(visages).  A handler that indexes out of range leaves g.panicked.
C36_NoIndexOutOfRange == ~g.panicked

(***************************************************************************)
(* The erase tool and the selection, checked under SpecTool.               *)
(***************************************************************************)
\* C37: in every reachable state, if the erase tool is on then a visage is
\* selected: the tool is switched on from a selected visage's toolbar only, a
\* press that misses every visage does not deselect while it is on, and
\* delete switches it off.
C37_ErasingImpliesSelected ==
  /\ g.erasing => g.selected
  /\ (pc = "mouse" /\ ~g.panicked /\ g.erasing /\ ~g.dragging /\ ~g.resizing) =>
       \A p \in Tooling.press :
         LET G == handleMouseActions(g, TRUE, FALSE, p[1], p[2]) IN
           /\ G.erasing => G.selected
           /\ (/\ \A i \in DOMAIN g.visages : ~Contains(g.visages[i], p[1], p[2])
               /\ g.selected /\ InRange(g, g.selectedIndex)
               /\ \A b \in Buttons : ~OnButton(At(g, g.selectedIndex), b, p[1], p[2])) =>
                G.selected /\ G.erasing
  /\ (pc = "keys" /\ ~g.panicked /\ g.erasing) =>
       LET K == keyActions(g, <<"D">>) IN ~K.erasing /\ ~K.selected

\* The tool on and the press that switched it on released: a press on the
\* empty canvas leaves the visage selected and the tool on, a press on the
\* delete button ends both.
C37_Witness ==
  /\ pc = "mouse" /\ g.erasing /\ g.selected /\ ~g.clicking /\ ~g.panicked
  /\ ~g.dragging /\ ~g.resizing /\ Len(g.visages) = 1
  /\ LET G == handleMouseActions(g, TRUE, FALSE, 0, 0) IN
       G.erasing /\ G.selected /\ ~G.dragging
  /\ LET G == handleMouseActions(g, TRUE, FALSE, 20, 170) IN
       ~G.erasing /\ ~G.selected /\ Len(G.visages) = 0

(***************************************************************************)
(* Sharing of pixel surfaces, checked under Spec.                          *)
(***************************************************************************)
\* C38: at every frame boundary no two entries of the visage list refer to
\* the same pixel surface, so that erasing on one visage changes the pixels
\* of no other.
C38_SurfacesNotShared ==
  pc = "errors" =>
    \A i, j \in DOMAIN g.visages : i # j => g.visages[i].image # g.visages[j].image

(***************************************************************************)
(* What a gesture frame leaves alone, checked under Spec.                  *)
(***************************************************************************)
\* Between G0 and G the list has kept its length and order, and every entry
\* but the one at index i its position, its size and its pixels.
OthersKept(G0, G, i) ==
  /\ Len(G.visages) = Len(G0.visages)
  /\ \A j \in DOMAIN G0.visages :
       j # i + 1 =>
         /\ G.visages[j] = G0.visages[j]
         /\ G.images[G.visages[j].image] = G0.images[G0.visages[j].image]

\* The pointer positions the gesture frames are tried at.
GesturePoints == {<<50, 41>>, <<80, 71>>, <<45, 60>>}

\* A frame of a drag moves the selected visage and nothing else.
DragFrameLocal ==
  (pc = "mouse" /\ ~g.panicked /\ g.dragging /\ InRange(g, g.selectedIndex)) =>
    \A p \in GesturePoints :
      LET G == handleMouseActions(g, TRUE, FALSE, p[1], p[2])
          i == g.selectedIndex
      IN /\ ~G.panicked /\ G.selectedIndex = i
         /\ OthersKept(g, G, i)
         /\ At(G, i).w = At(g, i).w /\ At(G, i).h = At(g, i).h
         /\ At(G, i).image = At(g, i).image
         /\ G.images = g.images

\* A frame of a resize changes the selected visage's box and nothing else.
ResizeFrameLocal ==
  (pc = "mouse" /\ ~g.panicked /\ g.resizing /\ ~g.dragging
     /\ InRange(g, g.selectedIndex)) =>
    \A p \in GesturePoints :
      LET G == handleMouseActions(g, TRUE, FALSE, p[1], p[2])
          i == g.selectedIndex
      IN /\ ~G.panicked /\ G.selectedIndex = i
         /\ OthersKept(g, G, i)
         /\ G.images = g.images

\* A frame of the erase tool, switched on for the selected visage and put
\* down at a point of that visage, changes the selected visage's pixels and
\* nothing else.
EraseFrameLocal ==
  (pc = "mouse" /\ ~g.panicked /\ g.selected /\ ~g.erasing
     /\ ~g.dragging /\ ~g.resizing /\ InRange(g, g.selectedIndex)) =>
    LET i == g.selectedIndex
        v == At(g, i)
        G1 == buttonAction(g, btnErase, i)
        G == handleErasing(G1, v.x + GoDiv(v.w, 2), v.y + GoDiv(v.h, 2))
    IN /\ G1.erasing /\ ~G.panicked /\ G.selectedIndex = i
       /\ G.visages = g.visages
       /\ OthersKept(g, G, i)

\* C39: a drag frame, a resize frame and an erase frame change only the
\* selected visage: the position, size and pixels of every other visage and
\* the length and order of the list are as they were, and a drag frame
\* leaves the selected visage's w, h and pixels as they were too.
C39_GestureFramesAreLocal ==
  DragFrameLocal /\ ResizeFrameLocal /\ EraseFrameLocal

(***************************************************************************)
(* The order handleKeybinds visits the keys in.                            *)
(***************************************************************************)
\* What a frame's key step leaves: the collection as it shows, the
\* selection, the erase flag, and whether the program is still running.
KeyOutcome(G) ==
  [visages |-> [i \in DOMAIN G.visages |->
                  [x |-> G.visages[i].x, y |-> G.visages[i].y,
                   w |-> G.visages[i].w, h |-> G.visages[i].h,
                   pix |-> G.images[G.visages[i].image].pix]],
   selected |-> G.selected, selectedIndex |-> G.selectedIndex,
   erasing |-> G.erasing, panicked |-> G.panicked]

\* The sets of two hotkeys that may go down in one frame.
KeyPairs == {S \in SUBSET Keys : Cardinality(S) = 2}

\* C40: when two hotkeys go down in the same frame, the collection, the
\* selection and the erase flag that result are the same in whatever order
\* handleKeybinds applies the two actions.
C40_KeyOrderIrrelevant ==
  (pc = "keys" /\ ~g.panicked /\ g.selected /\ InRange(g, g.selectedIndex)) =>
    \A S \in KeyPairs :
      \A o1, o2 \in Orders(S) :
        KeyOutcome(keyActions(g, o1)) = KeyOutcome(keyActions(g, o2))

====
